---- MODULE Spec2Model ----
(***************************************************************************)
(* Financial planning engine of RoboticAdvisor: rebalancer, goal           *)
(* allocator, deterministic projector and Monte Carlo simulator.           *)
(*                                                                         *)
(* Numbers.  The engine computes on IEEE doubles.  The model computes on   *)
(* integers and keeps every comparison the code makes exact by carrying    *)
(* explicit denominators:                                                  *)
(*   - percentages of the assumptions bundle are in tenths of a percent;   *)
(*   - a drift is stored as its numerator over totalValue;                 *)
(*   - costs are stored as their numerator over 10000;                     *)
(*   - growth factors (Math.pow) are fixed point with scale PowScale.      *)
(* NaN and the infinities are outside the modelled domain.                 *)
(***************************************************************************)
EXTENDS Integers, Sequences, FiniteSets, TLC

VARIABLES
  now,        \* the calendar year read by new Date().getFullYear()
  rebalIn,    \* arguments of the pending/last rebalancer call
  rebalOut,   \* its RebalancingResult, or None
  goalIn,     \* arguments of the pending/last goal-allocator call
  goalOut,    \* its GoalAllocationResult (with the year it was computed in)
  simIn,      \* raw ProjectionInputs and MonteCarloConfig
  projOut,    \* result of projectDeterministic, or None
  runs,       \* the invocations of runMonteCarlo: simulations so far, result
  lookupIn,   \* arguments of the pending/last getAssumptions call
  lookupOut,  \* the bundle it returned or the error it threw, or None
  tvmIn,      \* amount, rate and periods of a futureValue / presentValue round trip
  tvmOut,     \* what futureValue, then presentValue, returned or threw, or None
  rng,        \* a SeededRandom object: its field seed, or None
  rngLog,     \* the calls of next() made on it: the seed before and after
  planIn,     \* profile and currentPlan of a handleRetirementOptimization call
  planOut     \* the inputs it built, the summary and the recommendation, or None

vars == <<now, rebalIn, rebalOut, goalIn, goalOut, simIn, projOut, runs,
          lookupIn, lookupOut, tvmIn, tvmOut, rng, rngLog, planIn, planOut>>

None == [none |-> TRUE]

----------------------------------------------------------------------------
(* Generic helpers                                                         *)

Abs(x) == IF x < 0 THEN 0 - x ELSE x

Max(a, b) == IF a >= b THEN a ELSE b

\* the element of a singleton set: The({ e : x \in {v} }) is e with x bound to
\* the value of v, which is then computed once however often e uses it
The(S) == CHOOSE x \in S : TRUE

RECURSIVE SumSeq(_)
SumSeq(s) == IF s = <<>> THEN 0 ELSE Head(s) + SumSeq(Tail(s))

RECURSIVE SelectIdx(_, _, _)
\* indices i of 1..n, ascending, for which P[i] holds
SelectIdx(P, i, n) ==
  IF i > n THEN <<>>
  ELSE (IF P[i] THEN <<i>> ELSE <<>>) \o SelectIdx(P, i + 1, n)

----------------------------------------------------------------------------
(* Assumptions bundle IN / 2024-Q4 (tenths of a percent, basis points)     *)

AssetOrder == <<"equity-nifty50", "debt-govt-10y", "gold", "cash">>

AssetIds == {AssetOrder[i] : i \in 1..Len(AssetOrder)}

INDIA_2024_Q4 ==
  [ region  |-> "IN",
    version |-> "2024-Q4",
    assetClasses |->
      [ a \in AssetIds |->
          CASE a = "equity-nifty50" ->
                 [mean |-> 120, volatility |-> 180, tradingCost |-> 10]
            [] a = "debt-govt-10y" ->
                 [mean |-> 72, volatility |-> 45, tradingCost |-> 5]
            [] a = "gold" ->
                 [mean |-> 80, volatility |-> 150, tradingCost |-> 50]
            [] a = "cash" ->
                 [mean |-> 40, volatility |-> 5, tradingCost |-> 0] ],
    inflationMean |-> 60 ]

----------------------------------------------------------------------------
(* Rebalancer: generateRebalancingTrades                                   *)

\* the order in which the keys of the modelled objects were inserted; the
\* last one names an asset the bundle does not have
KeyOrder == AssetOrder \o <<"crypto">>

\* keys of an object in the order Object.entries visits them
Keys(obj) ==
  LET P == [i \in 1..Len(KeyOrder) |-> KeyOrder[i] \in DOMAIN obj]
      idx == SelectIdx(P, 1, Len(KeyOrder))
  IN  [k \in 1..Len(idx) |-> KeyOrder[idx[k]]]

RECURSIVE SumValues(_, _)
SumValues(obj, S) ==
  IF S = {} THEN 0
  ELSE LET a == CHOOSE x \in S : TRUE
       IN  obj[a] + SumValues(obj, S \ {a})

\* Object.values(currentHoldings).reduce((sum, v) => sum + v, 0)
TotalValue(holdings) == SumValues(holdings, DOMAIN holdings)

\* currentHoldings[asset] || 0
Held(holdings, a) == IF a \in DOMAIN holdings THEN holdings[a] ELSE 0

\* drifts[asset] = current - target, as a numerator over totalValue
DriftNum(holdings, target, a) ==
  100 * Held(holdings, a) - target[a] * TotalValue(holdings)

RECURSIVE MaxAbs(_, _)
\* Math.max(...Object.values(drifts).map(Math.abs)), numerator over totalValue
MaxAbs(d, S) ==
  IF S = {} THEN 0
  ELSE LET a == CHOOSE x \in S : TRUE
       IN  Max(Abs(d[a]), MaxAbs(d, S \ {a}))

\* maxDrift < config.driftThreshold
BelowThresholdInclusive(maxDriftNum, totalValue, driftThreshold) ==
  maxDriftNum <= driftThreshold * totalValue

BelowThreshold(maxDriftNum, totalValue, driftThreshold) ==
  maxDriftNum < driftThreshold * totalValue

\* config.minimumTradeAmount || 10000
MinimumTrade(config) ==
  IF "minimumTradeAmount" \in DOMAIN config /\ config.minimumTradeAmount # 0
  THEN config.minimumTradeAmount
  ELSE 10000

\* Math.abs(drift) > 1
OutsideDeadZoneWide(driftNum, totalValue) == Abs(driftNum) > 2 * totalValue

OutsideDeadZone(driftNum, totalValue) == Abs(driftNum) > totalValue

\* (targetAllocation[asset] / 100) * totalValue
TargetValue(target, holdings, a) ==
  (target[a] * TotalValue(holdings)) \div 100

\* the trade pushed for one asset, or <<>> when none is emitted
TradeFor(holdings, target, config, a) ==
  LET totalValue   == TotalValue(holdings)
      targetValue  == TargetValue(target, holdings, a)
      currentValue == Held(holdings, a)
      tradeAmount  == targetValue - currentValue
  IN  IF OutsideDeadZone(DriftNum(holdings, target, a), totalValue)
         /\ Abs(tradeAmount) >= MinimumTrade(config)
      THEN << [ asset        |-> a,
                action       |-> IF tradeAmount > 0 THEN "BUY" ELSE "SELL",
                amount       |-> Abs(tradeAmount),
                currentValue |-> currentValue,
                targetValue  |-> targetValue ] >>
      ELSE <<>>

RECURSIVE TradesFrom(_, _, _, _, _)
TradesFrom(holdings, target, config, keys, i) ==
  IF i > Len(keys) THEN <<>>
  ELSE TradeFor(holdings, target, config, keys[i])
       \o TradesFrom(holdings, target, config, keys, i + 1)

\* config.tradingCostBps || assetParams?.tradingCost || 10
TradingCostBps(config, assumptions, a) ==
  IF "tradingCostBps" \in DOMAIN config /\ config.tradingCostBps # 0
  THEN config.tradingCostBps
  ELSE IF a \in DOMAIN assumptions.assetClasses
          /\ assumptions.assetClasses[a].tradingCost # 0
       THEN assumptions.assetClasses[a].tradingCost
       ELSE 10

RECURSIVE CostNum(_, _, _)
\* estimatedCost as a numerator over 10000
CostNum(trades, config, assumptions) ==
  IF trades = <<>> THEN 0
  ELSE Head(trades).amount * TradingCostBps(config, assumptions, Head(trades).asset)
       + CostNum(Tail(trades), config, assumptions)

generateRebalancingTrades(holdings, target, assumptions, config) ==
  LET totalValue == TotalValue(holdings)
      drifts     == [a \in DOMAIN target |-> DriftNum(holdings, target, a)]
      maxDrift   == MaxAbs(drifts, DOMAIN target)
      trades     == TradesFrom(holdings, target, config, Keys(target), 1)
      cost       == CostNum(trades, config, assumptions)
  IN  IF totalValue = 0
      THEN [ needsRebalancing |-> FALSE, drifts |-> <<>>, maxDrift |-> 0,
             totalValue |-> 0, trades |-> <<>>,
             estimatedCost |-> 0, impactOnReturn |-> 0 ]
      ELSE IF BelowThreshold(maxDrift, totalValue, config.driftThreshold)
      THEN [ needsRebalancing |-> FALSE, drifts |-> drifts,
             maxDrift |-> maxDrift, totalValue |-> totalValue,
             trades |-> <<>>, estimatedCost |-> 0, impactOnReturn |-> 0 ]
      ELSE [ needsRebalancing |-> TRUE, drifts |-> drifts,
             maxDrift |-> maxDrift, totalValue |-> totalValue,
             trades |-> trades,
             estimatedCost  |-> cost,      \* over 10000
             impactOnReturn |-> cost ]     \* over totalValue, in bps

\* calculateDrift(currentHoldings, targetAllocation): {} when the total is 0,
\* else the drifts as numerators over totalValue
calculateDrift(holdings, target) ==
  IF TotalValue(holdings) = 0 THEN <<>>
  ELSE [a \in DOMAIN target |-> DriftNum(holdings, target, a)]

\* needsRebalancing(currentHoldings, targetAllocation, threshold); Math.max of
\* no drifts is -Infinity, which is below every threshold
needsRebalancing(holdings, target, threshold) ==
  LET drifts == calculateDrift(holdings, target)
  IN  IF DOMAIN drifts = {} THEN FALSE
      ELSE MaxAbs(drifts, DOMAIN drifts) >= threshold * TotalValue(holdings)

----------------------------------------------------------------------------
(* Inputs of the rebalancer                                                *)

MaxHoldingUnits == 4

HoldingValues ==
  {50000 * k : k \in 0..MaxHoldingUnits} \cup {205000, 195000, 206000, 97000}

RebalAssets == {"equity-nifty50", "debt-govt-10y", "gold"}

\* holdings over the whole target, or with the last target asset absent
HoldingsSet ==
  [RebalAssets -> HoldingValues] \cup [{"equity-nifty50", "debt-govt-10y"} -> HoldingValues]
    \cup [{"equity-nifty50"} -> HoldingValues]

TargetSet ==
  { [a \in {"equity-nifty50", "debt-govt-10y"} |->
        IF a = "equity-nifty50" THEN 70 ELSE 30],
    [a \in RebalAssets |->
        IF a = "equity-nifty50" THEN 50 ELSE 25] }

RebalConfigSet ==
  { [driftThreshold |-> 5],
    [driftThreshold |-> 5, minimumTradeAmount |-> 0],
    [driftThreshold |-> 5, minimumTradeAmount |-> 50000],
    [driftThreshold |-> 0, minimumTradeAmount |-> 100000],
    [driftThreshold |-> 1, minimumTradeAmount |-> 1000],
    [driftThreshold |-> 5, tradingCostBps |-> 0],
    [driftThreshold |-> 5, tradingCostBps |-> 20] }

InitRebal ==
  /\ now = 2025
  /\ rebalIn \in { r \in [holdings : HoldingsSet, target : TargetSet,
                          config : RebalConfigSet] :
                     DOMAIN r.holdings \subseteq DOMAIN r.target }
  /\ rebalOut = None
  /\ goalIn = None /\ goalOut = None
  /\ simIn = None /\ projOut = None /\ runs = <<>>
  /\ lookupIn = None /\ lookupOut = None
  /\ tvmIn = None /\ tvmOut = None
  /\ rng = None /\ rngLog = <<>>
  /\ planIn = None /\ planOut = None

GenerateRebalancingTrades ==
  /\ rebalIn # None
  /\ rebalOut = None
  /\ rebalOut' = generateRebalancingTrades(rebalIn.holdings, rebalIn.target,
                                           INDIA_2024_Q4, rebalIn.config)
  /\ UNCHANGED <<now, rebalIn, goalIn, goalOut, simIn, projOut, runs, lookupIn, lookupOut,
                 tvmIn, tvmOut, rng, rngLog, planIn, planOut>>

NextRebal == GenerateRebalancingTrades

SpecRebal == InitRebal /\ [][NextRebal]_vars

----------------------------------------------------------------------------
(* Claims about the rebalancer                                             *)

\* the trade emitted for asset a, as a sequence of length 0 or 1
TradeOf(result, a) == SelectSeq(result.trades, LAMBDA t : t.asset = a)

\* holdings after executing every emitted trade at face value
PostHolding(holdings, result, a) ==
  LET t == TradeOf(result, a)
  IN  IF t = <<>> THEN Held(holdings, a)
      ELSE IF t[1].action = "BUY" THEN Held(holdings, a) + t[1].amount
      ELSE Held(holdings, a) - t[1].amount

PostTotal(holdings, target, result) ==
  LET S == DOMAIN holdings \cup DOMAIN target
  IN  SumValues([a \in S |-> PostHolding(holdings, result, a)], S)

\* no trade for a although |drift| > 1: the minimum-trade rule suppressed it
SuppressedByMinimum(holdings, target, config, result, a) ==
  /\ TradeOf(result, a) = <<>>
  /\ Abs(100 * Held(holdings, a) - target[a] * TotalValue(holdings))
       > TotalValue(holdings)
  /\ Abs(target[a] * TotalValue(holdings) - 100 * Held(holdings, a))
       < 100 * MinimumTrade(config)

EmitsTrades == rebalOut # None /\ rebalOut.trades # <<>>

\* C1 as stated: after applying the emitted trades, every target asset is
\* within 1 percentage point of its target, percentages being recomputed
\* against the post-trade total, unless its trade was suppressed by the
\* minimum-trade-amount rule.
C1_PostTotalContract ==
  EmitsTrades =>
    LET h == rebalIn.holdings
        t == rebalIn.target
        total == PostTotal(h, t, rebalOut)
    IN  \A a \in DOMAIN t :
          \/ Abs(100 * PostHolding(h, rebalOut, a) - t[a] * total) <= total
          \/ SuppressedByMinimum(h, t, rebalIn.config, rebalOut, a)

\* C1 amended: after applying the emitted trades, every target asset is
\* within 1 percentage point of its target when percentages are taken against
\* the total value of the input holdings (the pre-trade total), unless its
\* trade was suppressed by the minimum-trade-amount rule.
C1_PreTotalContract ==
  EmitsTrades =>
    LET h == rebalIn.holdings
        t == rebalIn.target
        total == TotalValue(h)
    IN  \A a \in DOMAIN t :
          \/ Abs(100 * PostHolding(h, rebalOut, a) - t[a] * total) <= total
          \/ SuppressedByMinimum(h, t, rebalIn.config, rebalOut, a)

\* a call that emitted a trade, suppressed another and left an asset in the
\* 1 pp dead zone
C1_Witness ==
  /\ EmitsTrades
  /\ \E a \in DOMAIN rebalIn.target :
        SuppressedByMinimum(rebalIn.holdings, rebalIn.target, rebalIn.config,
                            rebalOut, a)
  /\ \E a \in DOMAIN rebalIn.target :
        /\ TradeOf(rebalOut, a) = <<>>
        /\ rebalOut.drifts[a] # 0
        /\ Abs(rebalOut.drifts[a]) <= rebalOut.totalValue

----------------------------------------------------------------------------
(* Numeric kernel: fixed-point Math.pow and the annuity formulas           *)

\* scale of the fixed-point growth factors: PowScale stands for 1.0
PowScale == 10000

RECURSIVE Pow(_, _)
\* Math.pow(1 + rate, n) for a rate given in units of 1/PowScale
Pow(rate, n) ==
  IF n = 0 THEN PowScale
  ELSE (Pow(rate, n - 1) * (PowScale + rate)) \div PowScale

\* requiredSIP(targetAmount, annualRate, years, 'monthly'); the callers of
\* the model pass targetAmount > 0 and years > 0, the cases that do not throw
requiredSIP(targetAmount, annualRate, years) ==
  LET periods == years * 12
      rate    == annualRate \div 12
      factor  == ((Pow(rate, periods) - PowScale) * (PowScale + rate)) \div rate
  IN  IF rate = 0 THEN targetAmount \div periods
      ELSE (targetAmount * PowScale) \div factor

----------------------------------------------------------------------------
(* Goal allocator: allocateGoalBudget                                      *)

\* assumptions.inflation.mean / 100, in units of 1/PowScale
InflationRate(assumptions) == assumptions.inflationMean * (PowScale \div 1000)

\* const expectedReturn = 0.10, in units of 1/PowScale
ExpectedReturn == PowScale \div 10

\* goal.currentSavings || 0
GoalSavings(goal) ==
  IF "currentSavings" \in DOMAIN goal THEN goal.currentSavings ELSE 0

\* the requirement record built for one goal (lines 29-62)
Requirement(goal, assumptions, currentYear) ==
  LET years == goal.targetYear - currentYear
      fv    == (goal.targetAmount * Pow(InflationRate(assumptions), years))
                 \div PowScale
      futureValueOfSavings ==
               (GoalSavings(goal) * Pow(ExpectedReturn, years)) \div PowScale
      remainingNeeded == Max(0, fv - futureValueOfSavings)
  IN  [ goalId       |-> goal.id,
        requiredSIP  |-> IF remainingNeeded > 0
                         THEN requiredSIP(remainingNeeded, ExpectedReturn, years)
                         ELSE 0,
        priority     |-> goal.priority,
        targetAmount |-> fv,
        years        |-> years ]

\* const priorityOrder = { high: 3, medium: 2, low: 1 }
PriorityOrderFlat(p) == 1

priorityOrder(p) ==
  CASE p = "high" -> 3 [] p = "medium" -> 2 [] p = "low" -> 1

\* the sort comparator: negative when a goes before b
CompareRequirements(a, b) ==
  LET priorityDiff == priorityOrder(b.priority) - priorityOrder(a.priority)
  IN  IF priorityDiff # 0 THEN priorityDiff ELSE a.years - b.years

RECURSIVE InsertSorted(_, _)
\* insert x after every element it does not precede (stable)
InsertSorted(sorted, x) ==
  IF sorted = <<>> THEN <<x>>
  ELSE IF CompareRequirements(x, Head(sorted)) < 0 THEN <<x>> \o sorted
  ELSE <<Head(sorted)>> \o InsertSorted(Tail(sorted), x)

RECURSIVE SortRequirements(_)
\* Array.prototype.sort with the comparator: a stable sort
SortRequirements(reqs) ==
  IF reqs = <<>> THEN <<>>
  ELSE InsertSorted(SortRequirements(SubSeq(reqs, 1, Len(reqs) - 1)),
                    reqs[Len(reqs)])

\* remaining after a goal has been served (lines 83-110)
RemainingKept(remaining, required) == remaining

RemainingAfter(remaining, required) ==
  IF remaining >= required THEN remaining - required ELSE 0

\* granted amount and feasibility of one goal given the running remainder
Allocated(remaining, required) ==
  IF remaining >= required THEN required
  ELSE IF remaining > 0 THEN remaining
  ELSE 0

\* full funding only when budget is left over after it
FeasibilityLeftOver(remaining, required) ==
  IF remaining > required THEN "on-track"
  ELSE IF remaining > 0
       THEN (IF 10 * remaining > 7 * required THEN "tight" ELSE "underfunded")
  ELSE "impossible"

Feasibility(remaining, required) ==
  IF remaining >= required THEN "on-track"
  ELSE IF remaining > 0
       THEN (IF 10 * remaining > 7 * required THEN "tight" ELSE "underfunded")
  ELSE "impossible"

RECURSIVE Allocate(_, _)
\* the greedy loop over the sorted requirements; returns the allocation
\* records in order, each with the remainder left after it
Allocate(sorted, remaining) ==
  IF sorted = <<>> THEN <<>>
  ELSE LET req == Head(sorted)
           allocated == Allocated(remaining, req.requiredSIP)
           left == RemainingAfter(remaining, req.requiredSIP)
       IN  << [ goalId      |-> req.goalId,
                monthlySIP  |-> allocated,
                requiredSIP |-> req.requiredSIP,
                feasibility |-> Feasibility(remaining, req.requiredSIP),
                conflict    |-> ~(remaining >= req.requiredSIP),
                remaining   |-> left ] >>
           \o Allocate(Tail(sorted), left)

allocateGoalBudget(goals, monthlyBudget, assumptions, currentYear) ==
  IF monthlyBudget < 0
  THEN [error |-> "Monthly budget cannot be negative"]
  ELSE IF goals = <<>>
  THEN [ allocations |-> <<>>, totalMonthly |-> 0,
         unallocated |-> monthlyBudget,
         budgetUtilization |-> [num |-> 0, den |-> 1],
         conflicts |-> 0, sorted |-> <<>> ]
  ELSE IF \E i \in 1..Len(goals) : goals[i].targetYear - currentYear <= 0
  THEN [error |-> "invalid target year (must be in future)"]
  ELSE LET requirements == [i \in 1..Len(goals) |->
                              Requirement(goals[i], assumptions, currentYear)]
           sorted == SortRequirements(requirements)
           allocs == Allocate(sorted, monthlyBudget)
           remaining == allocs[Len(allocs)].remaining
       IN  [ allocations |-> allocs,
             totalMonthly |-> monthlyBudget - remaining,
             unallocated |-> remaining,
             \* (monthlyBudget - remaining) / monthlyBudget * 100
             budgetUtilization |->
               [num |-> (monthlyBudget - remaining) * 100, den |-> monthlyBudget],
             conflicts |-> Cardinality({i \in 1..Len(allocs) : allocs[i].conflict}),
             sorted |-> sorted ]

----------------------------------------------------------------------------
(* Inputs of the goal allocator                                            *)

MaxGoals == 3

MaxTicks == 1

GoalShapes ==
  { [targetAmount |-> 30000, targetYear |-> 2027, priority |-> "high"],
    [targetAmount |-> 50000, targetYear |-> 2030, priority |-> "high"],
    [targetAmount |-> 20000, targetYear |-> 2027, priority |-> "medium"],
    [targetAmount |-> 5000,  targetYear |-> 2026, priority |-> "low"],
    [targetAmount |-> 10000, targetYear |-> 2027, priority |-> "high",
     currentSavings |-> 20000],
    [targetAmount |-> 40000, targetYear |-> 2030, priority |-> "medium",
     currentSavings |-> 5000] }

\* a shape with the stable id of its position in the list
WithId(shape, i) ==
  IF "currentSavings" \in DOMAIN shape
  THEN [id |-> i, targetAmount |-> shape.targetAmount,
        targetYear |-> shape.targetYear, priority |-> shape.priority,
        currentSavings |-> shape.currentSavings]
  ELSE [id |-> i, targetAmount |-> shape.targetAmount,
        targetYear |-> shape.targetYear, priority |-> shape.priority]

GoalLists ==
  UNION { { [i \in 1..n |-> WithId(f[i], i)] : f \in [1..n -> GoalShapes] }
          : n \in 0..MaxGoals }

\* 420 is the requiredSIP computed for the 5000 goal in 2025, 294 is 70% of it
BudgetSet == {0, 294, 400, 420, 1000, 1500, 2500, 6000}

InitGoals ==
  /\ now = 2025
  /\ goalIn \in [goals : GoalLists, monthlyBudget : BudgetSet]
  /\ goalOut = None
  /\ rebalIn = None /\ rebalOut = None
  /\ simIn = None /\ projOut = None /\ runs = <<>>
  /\ lookupIn = None /\ lookupOut = None
  /\ tvmIn = None /\ tvmOut = None
  /\ rng = None /\ rngLog = <<>>
  /\ planIn = None /\ planOut = None

AllocateGoalBudget ==
  /\ goalIn # None
  /\ goalOut = None
  /\ goalOut' = allocateGoalBudget(goalIn.goals, goalIn.monthlyBudget,
                                   INDIA_2024_Q4, now)
  /\ UNCHANGED <<now, rebalIn, rebalOut, goalIn, simIn, projOut, runs, lookupIn, lookupOut,
                 tvmIn, tvmOut, rng, rngLog, planIn, planOut>>

\* the calendar year advances
Tick ==
  /\ now < 2025 + MaxTicks
  /\ now' = now + 1
  /\ UNCHANGED <<rebalIn, rebalOut, goalIn, goalOut, simIn, projOut, runs, lookupIn, lookupOut,
                 tvmIn, tvmOut, rng, rngLog, planIn, planOut>>

NextGoals == AllocateGoalBudget \/ Tick

SpecGoals == InitGoals /\ [][NextGoals]_vars

----------------------------------------------------------------------------
(* Claims about the goal allocator                                         *)

GoalResult == goalOut # None /\ "error" \notin DOMAIN goalOut

RECURSIVE SumSIP(_)
SumSIP(allocs) ==
  IF allocs = <<>> THEN 0 ELSE Head(allocs).monthlySIP + SumSIP(Tail(allocs))

\* C2: total_monthly + unallocated = budget, total_monthly is the sum of the
\* granted monthly_sip, and every goal has 0 <= monthly_sip <= required_sip.
C2_AllocatorClosure ==
  GoalResult =>
    /\ goalOut.totalMonthly + goalOut.unallocated = goalIn.monthlyBudget
    /\ goalOut.totalMonthly = SumSIP(goalOut.allocations)
    /\ \A i \in 1..Len(goalOut.allocations) :
         /\ 0 <= goalOut.allocations[i].monthlySIP
         /\ goalOut.allocations[i].monthlySIP
              <= goalOut.allocations[i].requiredSIP

\* a result with a fully funded, a partially funded and an unfunded goal
C2_Witness ==
  /\ GoalResult
  /\ goalOut.unallocated = 0
  /\ \E i, j, k \in 1..Len(goalOut.allocations) :
       /\ goalOut.allocations[i].feasibility = "on-track"
       /\ goalOut.allocations[i].monthlySIP > 0
       /\ goalOut.allocations[j].feasibility \in {"tight", "underfunded"}
       /\ goalOut.allocations[k].feasibility = "impossible"

\* the goal of an allocation record
GoalOf(alloc) ==
  LET i == CHOOSE i \in 1..Len(goalIn.goals) : goalIn.goals[i].id = alloc.goalId
  IN  goalIn.goals[i]

\* g ranks strictly before h: higher priority, or same priority and earlier year
RanksBefore(g, h) ==
  \/ (g.priority = "high" /\ h.priority \in {"medium", "low"})
  \/ (g.priority = "medium" /\ h.priority = "low")
  \/ (g.priority = h.priority /\ g.targetYear < h.targetYear)

\* C3: goals are served in the order high > medium > low, ties broken by the
\* earlier target year, and once a goal receives less than its required SIP
\* every goal ranking after it receives 0.
C3_PriorityOrder ==
  GoalResult =>
    LET al == goalOut.allocations
    IN  /\ \A i, j \in 1..Len(al) :
             RanksBefore(GoalOf(al[i]), GoalOf(al[j])) => i < j
        /\ \A i, j \in 1..Len(al) :
             (al[i].monthlySIP < al[i].requiredSIP
                /\ (i < j \/ RanksBefore(GoalOf(al[i]), GoalOf(al[j]))))
               => al[j].monthlySIP = 0

\* a short higher-priority goal followed by unfunded lower-ranking goals, in
\* a list given in the opposite order
C3_Witness ==
  /\ GoalResult
  /\ \E i, j \in 1..Len(goalOut.allocations) :
       LET al == goalOut.allocations
       IN  /\ i < j
           /\ 0 < al[i].monthlySIP /\ al[i].monthlySIP < al[i].requiredSIP
           /\ al[j].requiredSIP > 0
           /\ RanksBefore(GoalOf(al[i]), GoalOf(al[j]))
           /\ al[i].goalId > al[j].goalId

----------------------------------------------------------------------------
(* Numeric kernel: SeededRandom                                            *)
(*                                                                         *)
(* next() evaluates (seed * 1103515245 + 12345) & 0x7fffffff on doubles:   *)
(* the product and the sum are each rounded to 53 significant bits before  *)
(* the bitwise and takes the low 31 bits.  The model multiplies on limbs   *)
(* of 15 bits, least significant first.                                    *)

LimbBase == 32768

RECURSIVE Carry(_, _)
\* propagate carries through limbs, least significant first
Carry(limbs, c) ==
  IF limbs = <<>> THEN (IF c = 0 THEN <<>> ELSE <<c>>)
  ELSE LET t == Head(limbs) + c
       IN  <<t % LimbBase>> \o Carry(Tail(limbs), t \div LimbBase)

RECURSIVE BitLen(_)
BitLen(n) == IF n = 0 THEN 0 ELSE 1 + BitLen(n \div 2)

RECURSIVE TopLimb(_)
\* index of the most significant non-zero limb, 0 when the value is 0
TopLimb(limbs) ==
  IF limbs = <<>> THEN 0
  ELSE IF limbs[Len(limbs)] # 0 THEN Len(limbs)
  ELSE TopLimb(SubSeq(limbs, 1, Len(limbs) - 1))

RECURSIVE Pow2(_)
Pow2(k) == IF k = 0 THEN 1 ELSE 2 * Pow2(k - 1)

\* round a non-negative integer to the nearest double, ties to even
RoundToDouble(limbs) ==
  LET t == TopLimb(limbs)
      bits == IF t = 0 THEN 0 ELSE 15 * (t - 1) + BitLen(limbs[t])
  IN  The({ IF k <= 0 THEN limbs
            ELSE LET low  == limbs[1] % unit
                     half == unit \div 2
                     odd  == (limbs[1] \div unit) % 2 = 1
                     up   == low > half \/ (low = half /\ odd)
                     l0   == limbs[1] - low + (IF up THEN unit ELSE 0)
                 IN  Carry(<<l0>> \o Tail(limbs), 0) :
            k \in {bits - 53}, unit \in {Pow2(Max(bits - 53, 0))} })

\* seed * 1103515245, exactly, for 0 <= seed < 2^31
TimesMultiplier(seed) ==
  LET s0 == seed % LimbBase
      s1 == (seed \div LimbBase) % LimbBase
      s2 == seed \div (LimbBase * LimbBase)
      a0 == 20077
      a1 == 908
      a2 == 1
  IN  Carry(<< s0 * a0,
               s0 * a1 + s1 * a0,
               s0 * a2 + s1 * a1 + s2 * a0,
               s1 * a2 + s2 * a1,
               s2 * a2 >>, 0)

\* x & 0x7fffffff for a non-negative integer x
Low31(limbs) ==
  LET l == limbs \o <<0, 0, 0>>
  IN  l[1] + l[2] * LimbBase + (l[3] % 2) * LimbBase * LimbBase

\* this.seed = (this.seed * 1103515245 + 12345) & 0x7fffffff
LcgNext(seed) ==
  The({ The({ The({ The({ Low31(sum) :
                          sum \in {RoundToDouble(added)} }) :
                    added \in {Carry(<<product[1] + 12345>> \o Tail(product), 0)} }) :
              product \in {RoundToDouble(exact)} }) :
        exact \in {TimesMultiplier(seed)} })

\* next(), as the percentile bucket of u = seed / 0x7fffffff: 0..99, and 100
\* when u = 1
Percent(seed) == seed \div 21474836

\* Math.sqrt(-2 * Math.log(u1)), in tenths, by the bucket of u1
Radius(u1) ==
  IF u1 < 1 THEN 33
  ELSE IF u1 < 10 THEN 24
  ELSE IF u1 < 30 THEN 18
  ELSE IF u1 < 60 THEN 13
  ELSE IF u1 < 90 THEN 7
  ELSE 3

\* Math.cos(2 * Math.PI * u2), in hundredths, by the octant of u2
Cosine(u2) ==
  LET octant == IF u2 >= 100 THEN 0 ELSE (u2 * 8) \div 100
  IN  <<92, 38, -38, -92, -92, -38, 38, 92>>[octant + 1]

\* The values of a double that are not finite amounts, held as integers
\* beyond every amount of the model
Infinity == 2000000000

NegInfinity == -2000000000

NaN == 2100000000

Finite(x) == x \notin {NaN, Infinity, NegInfinity}

\* a * b when a or b is not finite: 0 * Infinity and NaN * b are NaN
TimesExt(a, b) ==
  IF a = NaN \/ b = NaN THEN NaN
  ELSE IF a = 0 \/ b = 0 THEN NaN
  ELSE IF (a > 0) = (b > 0) THEN Infinity
  ELSE NegInfinity

\* a + b: Infinity - Infinity and NaN + b are NaN
PlusExt(a, b) ==
  IF a = NaN \/ b = NaN THEN NaN
  ELSE IF Finite(a) /\ Finite(b) THEN a + b
  ELSE IF Finite(a) THEN b
  ELSE IF Finite(b) THEN a
  ELSE IF a = b THEN a
  ELSE NaN

RECURSIVE SumExt(_)
SumExt(s) == IF s = <<>> THEN 0 ELSE PlusExt(Head(s), SumExt(Tail(s)))

\* normal(): two draws, the standard normal in hundredths and the new state;
\* Math.log(0) is -Infinity, so a first draw of 0 gives +-Infinity
normal(seed) ==
  The({ The({ [ z    |-> IF s1 = 0
                         THEN (IF Cosine(Percent(s2)) > 0 THEN Infinity
                               ELSE NegInfinity)
                         ELSE (Radius(Percent(s1)) * Cosine(Percent(s2))) \div 10,
                seed |-> s2 ] :
              s2 \in {LcgNext(s1)} }) :
        s1 \in {LcgNext(seed)} })

\* normalWithParams(mean, std), mean and std in tenths of a percent
normalWithParams(seed, mean, std) ==
  The({ [ value |-> IF Finite(n.z) THEN mean + (std * n.z) \div 100
                    ELSE PlusExt(mean, TimesExt(std, n.z)),
          seed |-> n.seed ] :
        n \in {normal(seed)} })

----------------------------------------------------------------------------
(* Validation: sanitizeInputs, validateInputs                              *)
(* Raw ages are in tenths of a year; sanitized ages are whole years.       *)
(* Allocation weights are in hundredths of a percent.                      *)

\* Math.round of a non-negative number of tenths
RoundDown(tenths) == tenths \div 10

Round(tenths) == (tenths + 5) \div 10

sanitizeInputs(inputs) ==
  [ inputs EXCEPT !.currentAge       = Round(@),
                  !.retirementAge    = Round(@),
                  !.lifeExpectancy   = Round(@),
                  !.currentSavings   = Max(0, @),
                  !.monthlyInvestment = Max(0, @),
                  !.monthlyExpenses  = Max(0, @) ]

\* the field of the ValidationError thrown, or "ok"
validateInputs(inputs) ==
  LET allocationSum == SumValues(inputs.assetAllocation,
                                 DOMAIN inputs.assetAllocation)
  IN  IF inputs.currentAge < 18 \/ inputs.currentAge > 100 THEN "currentAge"
      ELSE IF inputs.retirementAge <= inputs.currentAge THEN "retirementAge"
      ELSE IF inputs.lifeExpectancy <= inputs.retirementAge THEN "lifeExpectancy"
      ELSE IF inputs.currentSavings < 0 THEN "currentSavings"
      ELSE IF inputs.monthlyInvestment < 0 THEN "monthlyInvestment"
      ELSE IF inputs.monthlyExpenses < 0 THEN "monthlyExpenses"
      ELSE IF Abs(allocationSum - 10000) > 1 THEN "assetAllocation"
      ELSE IF \E a \in DOMAIN inputs.assetAllocation :
                inputs.assetAllocation[a] < 0 \/ inputs.assetAllocation[a] > 10000
           THEN "assetAllocation"
      ELSE "ok"

----------------------------------------------------------------------------
(* Yearly cashflows shared by the shape of both projection loops           *)

RECURSIVE FutureExpense(_, _, _)
\* futureExpenses?.filter(e => e.year === year).reduce(...) || 0
FutureExpense(expenses, year, inflationRate) ==
  IF expenses = <<>> THEN 0
  ELSE (IF Head(expenses).year = year
        THEN (Head(expenses).amount * Pow(inflationRate, year)) \div PowScale
        ELSE 0)
       + FutureExpense(Tail(expenses), year, inflationRate)

FutureExpenses(inputs) ==
  IF "futureExpenses" \in DOMAIN inputs THEN inputs.futureExpenses ELSE <<>>

----------------------------------------------------------------------------
(* Deterministic projector: projectDeterministic                           *)

\* inputs.investmentGrowthRate || (inflationRate + 0.01)
ProjInvestmentGrowth(inputs, inflationRate) ==
  IF "investmentGrowthRate" \in DOMAIN inputs /\ inputs.investmentGrowthRate # 0
  THEN inputs.investmentGrowthRate
  ELSE inflationRate + PowScale \div 100

\* inputs.expenseGrowthRate || inflationRate
ProjExpenseGrowth(inputs, inflationRate) ==
  IF "expenseGrowthRate" \in DOMAIN inputs /\ inputs.expenseGrowthRate # 0
  THEN inputs.expenseGrowthRate
  ELSE inflationRate

RECURSIVE WeightedMean(_, _, _)
\* sum of weight * nominalReturn.mean over the allocation
WeightedMean(allocation, assumptions, S) ==
  IF S = {} THEN 0
  ELSE LET a == CHOOSE x \in S : TRUE
       IN  allocation[a] * assumptions.assetClasses[a].mean
           + WeightedMean(allocation, assumptions, S \ {a})

\* calculatePortfolioReturn, in tenths of a percent; "Unknown asset" throws
calculatePortfolioReturn(allocation, assumptions) ==
  IF \E a \in DOMAIN allocation : a \notin DOMAIN assumptions.assetClasses
  THEN [error |-> "Unknown asset"]
  ELSE [value |-> WeightedMean(allocation, assumptions, DOMAIN allocation)
                    \div 10000]

\* if (portfolio < 0) portfolio = 0
ProjUnclamped(portfolio) == portfolio

ProjClamp(portfolio) == IF portfolio < 0 THEN 0 ELSE portfolio

\* portfolio === 0 && isRetired
ProjDepletedAnyAge(portfolio, isRetired) == portfolio = 0

ProjDepleted(portfolio, isRetired) == portfolio = 0 /\ isRetired

\* isRetired ? 0 : inputs.monthlyInvestment * 12 * Math.pow(...)
ProjContributionAlways(isRetired, amount) == amount

ProjContribution(isRetired, amount) == IF isRetired THEN 0 ELSE amount

\* one iteration of the loop of projectDeterministic: the record it pushes
ProjectYear(inputs, assumptions, portfolioExpectedReturn, year, portfolio) ==
  LET inflationRate    == InflationRate(assumptions)
      investmentGrowth == ProjInvestmentGrowth(inputs, inflationRate)
      expenseGrowth    == ProjExpenseGrowth(inputs, inflationRate)
      age              == inputs.currentAge + year
      isRetired        == age >= inputs.retirementAge
      annualExpenses   ==
        (inputs.monthlyExpenses * 12 * Pow(expenseGrowth, year)) \div PowScale
      totalExpenses    ==
        annualExpenses + FutureExpense(FutureExpenses(inputs), year, inflationRate)
      annualContribution ==
        ProjContribution(isRetired,
          (inputs.monthlyInvestment * 12 * Pow(investmentGrowth, year))
            \div PowScale)
      withdrawal       == IF isRetired THEN totalExpenses ELSE 0
      investmentReturn == (portfolio * portfolioExpectedReturn) \div 1000
      netCashflow      == annualContribution - withdrawal
  IN  [ year |-> year, age |-> age,
        portfolioValue |-> ProjClamp(portfolio + investmentReturn + netCashflow),
        income |-> 0, expenses |-> totalExpenses,
        netCashflow |-> netCashflow,
        contributions |-> annualContribution,
        withdrawals |-> withdrawal,
        investmentReturn |-> investmentReturn ]

RECURSIVE ProjectFrom(_, _, _, _, _)
\* the loop of projectDeterministic from the given year on
ProjectFrom(inputs, assumptions, portfolioExpectedReturn, year, portfolio) ==
  IF ~(year < inputs.lifeExpectancy - inputs.currentAge) THEN <<>>
  ELSE The({
         <<record>> \o
         (IF ProjDepleted(record.portfolioValue,
                          record.age >= inputs.retirementAge)
          THEN <<>>
          ELSE ProjectFrom(inputs, assumptions, portfolioExpectedReturn,
                           year + 1, record.portfolioValue)) :
         record \in {ProjectYear(inputs, assumptions, portfolioExpectedReturn,
                                year, portfolio)} })

\* nominalToReal(nominalRate, inflationRate), rates in units of 1/PowScale
nominalToReal(nominalRate, inflationRate) ==
  ((PowScale + nominalRate) * PowScale) \div (PowScale + inflationRate) - PowScale

\* presentValueAnnuity(payment, rate, periods) for payment, periods >= 0
presentValueAnnuity(payment, rate, periods) ==
  IF rate = 0 THEN payment * periods
  ELSE LET discount == (PowScale * PowScale) \div Pow(rate, periods)
       IN  (payment * (PowScale - discount)) \div rate

\* the first record with an empty portfolio, retired or not
DepletedAnyAge(timeline, retirementAge) ==
  LET hits == { i \in 1..Len(timeline) : timeline[i].portfolioValue = 0 }
  IN  IF hits = {} THEN 0 ELSE CHOOSE i \in hits : \A j \in hits : i <= j

\* timeline.find(y => y.portfolioValue === 0 && y.age >= retirementAge)
DepletedIndex(timeline, retirementAge) ==
  LET hits == { i \in 1..Len(timeline) :
                  timeline[i].portfolioValue = 0 /\ timeline[i].age >= retirementAge }
  IN  IF hits = {} THEN 0 ELSE CHOOSE i \in hits : \A j \in hits : i <= j

\* the summary block (lines 96-131)
Summary(inputs, assumptions, portfolioExpectedReturn, timeline) ==
  LET inflationRate == InflationRate(assumptions)
      atRetirement == { i \in 1..Len(timeline) :
                          timeline[i].age = inputs.retirementAge }
      corpusAtRetirement ==
        IF atRetirement = {} THEN 0
        ELSE timeline[CHOOSE i \in atRetirement : TRUE].portfolioValue
      retirementYears == inputs.lifeExpectancy - inputs.retirementAge
      retirementExpenses ==
        (inputs.monthlyExpenses * 12
           * Pow(inflationRate, inputs.retirementAge - inputs.currentAge))
          \div PowScale
      realReturn == nominalToReal(portfolioExpectedReturn * (PowScale \div 1000),
                                  inflationRate)
      corpusNeeded == presentValueAnnuity(retirementExpenses, realReturn,
                                          retirementYears)
      gap == corpusNeeded - corpusAtRetirement
      depleted == DepletedIndex(timeline, inputs.retirementAge)
      successMetric ==
        IF depleted # 0 THEN "depletion"
        ELSE IF gap < 0 THEN "surplus"
        ELSE IF corpusNeeded # 0 /\ 10 * gap < corpusNeeded THEN "on-track"
        ELSE "shortfall"
      base == [ retirementCorpusNeeded |-> corpusNeeded,
                projectedCorpusAtRetirement |-> corpusAtRetirement,
                finalPortfolioValue |-> timeline[Len(timeline)].portfolioValue,
                successMetric |-> successMetric ]
  IN  IF depleted # 0
      THEN base @@ [depletionAge |-> timeline[depleted].age]
      ELSE base

projectDeterministic(rawInputs, assumptions) ==
  The({
    LET valid == validateInputs(inputs)
    IN  IF valid # "ok" THEN [error |-> "ValidationError", field |-> valid]
        ELSE The({
          IF "error" \in DOMAIN ret THEN [error |-> ret.error, field |-> "none"]
          ELSE The({ [ timeline |-> timeline,
                       summary  |-> Summary(inputs, assumptions, ret.value,
                                            timeline) ] :
                     timeline \in {ProjectFrom(inputs, assumptions, ret.value, 0,
                                               inputs.currentSavings)} }) :
          ret \in {calculatePortfolioReturn(inputs.assetAllocation,
                                            assumptions)} }) :
    inputs \in {sanitizeInputs(rawInputs)} })

----------------------------------------------------------------------------
(* Monte Carlo simulator: runMonteCarlo, runSingleSimulation,              *)
(* aggregateResults                                                        *)

\* inputs.investmentGrowthRate || (inflationRate + 0.01)
SimInvestmentGrowth(inputs, inflationRate) ==
  IF "investmentGrowthRate" \in DOMAIN inputs /\ inputs.investmentGrowthRate # 0
  THEN inputs.investmentGrowthRate
  ELSE inflationRate + PowScale \div 100

\* inputs.expenseGrowthRate || inflationRate
SimExpenseGrowth(inputs, inflationRate) ==
  IF "expenseGrowthRate" \in DOMAIN inputs /\ inputs.expenseGrowthRate # 0
  THEN inputs.expenseGrowthRate
  ELSE inflationRate

RECURSIVE SampleReturns(_, _, _, _, _)
\* the inner loop over assetParams: the weighted sum of the sampled asset
\* returns (weight in hundredths of a percent times tenths of a percent) and
\* the generator state after it
SampleReturns(allocation, assumptions, keys, i, seed) ==
  IF i > Len(keys) THEN [sum |-> 0, seed |-> seed]
  ELSE LET params == assumptions.assetClasses[keys[i]]
       IN  The({ The({ [ sum  |-> PlusExt(IF Finite(draw.value)
                                          THEN allocation[keys[i]] * draw.value
                                          ELSE TimesExt(allocation[keys[i]],
                                                        draw.value),
                                          rest.sum),
                         seed |-> rest.seed ] :
                       rest \in {SampleReturns(allocation, assumptions, keys,
                                               i + 1, draw.seed)} }) :
                 draw \in {normalWithParams(seed, params.mean,
                                            params.volatility)} })

\* if (portfolio < 0) portfolio = 0
SimUnclamped(portfolio) == portfolio

SimClamp(portfolio) == IF portfolio # NaN /\ portfolio < 0 THEN 0 ELSE portfolio

\* portfolio === 0 && isRetired
SimDepletedAnyAge(portfolio, isRetired) == portfolio = 0

SimDepleted(portfolio, isRetired) == portfolio = 0 /\ isRetired

\* one iteration of the loop of runSingleSimulation: the record it pushes and
\* the generator state it leaves
SimulateYear(inputs, assumptions, year, portfolio, seed) ==
  LET inflationRate    == InflationRate(assumptions)
      investmentGrowth == SimInvestmentGrowth(inputs, inflationRate)
      expenseGrowth    == SimExpenseGrowth(inputs, inflationRate)
      age              == inputs.currentAge + year
      isRetired        == age >= inputs.retirementAge
      annualExpenses   ==
        (inputs.monthlyExpenses * 12 * Pow(expenseGrowth, year)) \div PowScale
      totalExpenses    ==
        annualExpenses + FutureExpense(FutureExpenses(inputs), year, inflationRate)
      annualContribution ==
        IF isRetired THEN 0
        ELSE (inputs.monthlyInvestment * 12 * Pow(investmentGrowth, year))
               \div PowScale
      withdrawal       == IF isRetired THEN totalExpenses ELSE 0
      netCashflow      == annualContribution - withdrawal
  IN  The({ The({
        [ record |->
            [ year |-> year, age |-> age,
              portfolioValue |->
                SimClamp(PlusExt(PlusExt(portfolio, investmentReturn),
                                 netCashflow)),
              income |-> 0, expenses |-> totalExpenses,
              netCashflow |-> netCashflow,
              contributions |-> annualContribution,
              withdrawals |-> withdrawal,
              investmentReturn |-> investmentReturn ],
          seed |-> sampled.seed ] :
        investmentReturn \in
          {IF Finite(portfolio) /\ Finite(sampled.sum)
           THEN (portfolio * (sampled.sum \div 10000)) \div 1000
           ELSE TimesExt(portfolio, sampled.sum)} }) :
        sampled \in {SampleReturns(inputs.assetAllocation, assumptions,
                                   Keys(inputs.assetAllocation), 1, seed)} })

RECURSIVE SimulateFrom(_, _, _, _, _)
\* the loop of runSingleSimulation from the given year on
SimulateFrom(inputs, assumptions, year, portfolio, seed) ==
  IF ~(year < inputs.lifeExpectancy - inputs.currentAge) THEN <<>>
  ELSE The({
         <<step.record>> \o
         (IF SimDepleted(step.record.portfolioValue,
                         step.record.age >= inputs.retirementAge)
          THEN <<>>
          ELSE SimulateFrom(inputs, assumptions, year + 1,
                            step.record.portfolioValue, step.seed)) :
         step \in {SimulateYear(inputs, assumptions, year, portfolio, seed)} })

\* new SeededRandom(seed), then the loop
runSingleSimulation(inputs, assumptions, seed) ==
  SimulateFrom(inputs, assumptions, 0, inputs.currentSavings, seed)

\* const seed = (config.seed || 42) + sim
PathSeedFromClock(config, sim) ==
  (IF "seed" \in DOMAIN config /\ config.seed # 0 THEN config.seed ELSE now) + sim

PathSeed(config, sim) ==
  (IF "seed" \in DOMAIN config /\ config.seed # 0 THEN config.seed ELSE 42) + sim

\* x || 0
OrZero(x) == IF x = NaN THEN 0 ELSE x

\* the SimulationPath pushed by one iteration of the loop of runMonteCarlo;
\* seed records the argument given to runSingleSimulation
SimulationPath(inputs, assumptions, config, sim) ==
  The({ LET depleted == DepletedIndex(timeline, inputs.retirementAge)
            path == [ id |-> sim, seed |-> seed, timeline |-> timeline,
                      terminalValue |->
                        OrZero(timeline[Len(timeline)].portfolioValue) ]
        IN  IF depleted # 0
            THEN path @@ [depletedAt |-> timeline[depleted].year]
            ELSE path :
        seed \in {PathSeed(config, sim)},
        timeline \in {runSingleSimulation(inputs, assumptions,
                                          PathSeed(config, sim))} })

RECURSIVE Simulations(_, _, _, _)
\* the simulations pushed by the first n iterations of the loop of runMonteCarlo
Simulations(inputs, assumptions, config, n) ==
  IF n = 0 THEN <<>>
  ELSE Append(Simulations(inputs, assumptions, config, n - 1),
              SimulationPath(inputs, assumptions, config, n - 1))

RECURSIVE InsertNumber(_, _)
InsertNumber(sorted, x) ==
  IF sorted = <<>> THEN <<x>>
  ELSE IF x < Head(sorted) THEN <<x>> \o sorted
  ELSE <<Head(sorted)>> \o InsertNumber(Tail(sorted), x)

RECURSIVE SortNumbers(_)
\* [...values].sort((a, b) => a - b)
SortNumbers(values) ==
  IF values = <<>> THEN <<>>
  ELSE The({ InsertNumber(sorted, values[Len(values)]) :
             sorted \in {SortNumbers(SubSeq(values, 1, Len(values) - 1))} })

\* x * weight for a weight in hundredths
Scaled(x, weight) == IF Finite(x) THEN x * weight ELSE TimesExt(x, weight)

\* percentile(values, p) with linear interpolation, in hundredths
percentile(values, p) ==
  IF values = <<>> THEN 0
  ELSE The({ LET index100 == p * (Len(sorted) - 1)
                 lower  == index100 \div 100
                 weight == index100 % 100
                 upper  == IF weight = 0 THEN lower ELSE lower + 1
             IN  PlusExt(Scaled(sorted[lower + 1], 100 - weight),
                         Scaled(sorted[upper + 1], weight)) :
             sorted \in {SortNumbers(values)} })

\* the comparator (a, b) => a.terminalValue - b.terminalValue is negative
PathBeforeDescending(a, b) == a.terminalValue > b.terminalValue

PathBefore(a, b) == a.terminalValue < b.terminalValue

RECURSIVE InsertPath(_, _)
InsertPath(sorted, x) ==
  IF sorted = <<>> THEN <<x>>
  ELSE IF PathBefore(x, Head(sorted)) THEN <<x>> \o sorted
  ELSE <<Head(sorted)>> \o InsertPath(Tail(sorted), x)

RECURSIVE SortPaths(_)
\* [...simulations].sort((a, b) => a.terminalValue - b.terminalValue)
SortPaths(simulations) ==
  IF simulations = <<>> THEN <<>>
  ELSE The({ InsertPath(sorted, simulations[Len(simulations)]) :
             sorted \in {SortPaths(SubSeq(simulations, 1,
                                          Len(simulations) - 1))} })

\* Math.floor(simulations.length * p) for p in hundredths
PercentileIndex(n, p) == (n * p) \div 100

\* sim.timeline[sim.timeline.length - 1]?.portfolioValue > 0
IsSuccess(sim) ==
  /\ sim.timeline[Len(sim.timeline)].portfolioValue # NaN
  /\ sim.timeline[Len(sim.timeline)].portfolioValue > 0

\* the shortfall of a failed path: |portfolioValue| in the year it depleted
Shortfall(sim) ==
  LET hits == { i \in 1..Len(sim.timeline) :
                  sim.timeline[i].year = sim.depletedAt }
  IN  IF hits = {} THEN 0
      ELSE Abs(sim.timeline[CHOOSE i \in hits : \A j \in hits : i <= j]
                 .portfolioValue)

\* aggregateResults(simulations, inputs) for at least one simulation;
\* fractions are [num, den]; the standard deviation is not modelled
aggregateResults(simulations) ==
  LET n == Len(simulations)
      successes == Cardinality({ i \in 1..n : IsSuccess(simulations[i]) })
      terminalValues == [i \in 1..n |-> simulations[i].terminalValue]
  IN
  The({
    LET shortfalls == [i \in 1..Len(failed) |-> Shortfall(failed[i])]
    IN
      [ successProbability |-> [num |-> successes, den |-> n],
        medianOutcome |-> sortedSims[PercentileIndex(n, 50) + 1].terminalValue,
        percentiles |->
          [ p10 |-> sortedSims[PercentileIndex(n, 10) + 1].timeline,
            p25 |-> sortedSims[PercentileIndex(n, 25) + 1].timeline,
            p50 |-> sortedSims[PercentileIndex(n, 50) + 1].timeline,
            p75 |-> sortedSims[PercentileIndex(n, 75) + 1].timeline,
            p90 |-> sortedSims[PercentileIndex(n, 90) + 1].timeline ],
        terminalValueDistribution |->
          [ mean   |-> [num |-> SumExt(terminalValues), den |-> n],
            median |-> [num |-> percentile(terminalValues, 50), den |-> 100],
            values |-> terminalValues ],
        shortfallRisk |->
          [ probability |-> [num |-> n - successes, den |-> n],
            averageShortfall |->
              IF Len(failed) > 0
              THEN [num |-> SumSeq(shortfalls), den |-> Len(failed)]
              ELSE [num |-> 0, den |-> 1],
            worstCase |-> sortedSims[1].terminalValue ] ] :
    sortedSims \in {SortPaths(simulations)},
    failed \in {SelectSeq(simulations,
                          LAMBDA sim : "depletedAt" \in DOMAIN sim)} })

\* one invocation: the simulations it ran and what it returned or threw
runMonteCarlo(rawInputs, assumptions, config) ==
  The({
    LET valid == validateInputs(inputs)
    IN  IF valid # "ok"
        THEN [ simulations |-> <<>>,
               result |-> [error |-> "ValidationError", field |-> valid] ]
        ELSE IF \E a \in DOMAIN inputs.assetAllocation :
                  a \notin DOMAIN assumptions.assetClasses
        THEN [ simulations |-> <<>>,
               result |-> [error |-> "TypeError", field |-> "none"] ]
        ELSE The({ [ simulations |-> simulations,
                     result |-> aggregateResults(simulations) ] :
                   simulations \in {Simulations(inputs, assumptions, config,
                                                config.numSimulations)} }) :
    inputs \in {sanitizeInputs(rawInputs)} })

----------------------------------------------------------------------------
(* Inputs of the projector and the simulator                               *)

MaxSims == 4

MaxRuns == 2

Balanced == ("equity-nifty50" :> 7000 @@ "debt-govt-10y" :> 3000)

AllEquity == ("equity-nifty50" :> 10000)

BaseInputs ==
  [ currentAge |-> 300, retirementAge |-> 320, lifeExpectancy |-> 350,
    currentSavings |-> 50000, monthlyInvestment |-> 1000,
    monthlyExpenses |-> 1500, assetAllocation |-> Balanced ]

CashflowInputs ==
  { [BaseInputs EXCEPT !.currentSavings = s, !.monthlyInvestment = m,
                       !.monthlyExpenses = e] :
      s \in {0, 50000}, m \in {0, 1000}, e \in {0, 1500, 4000, 8000} }
    \cup { [BaseInputs EXCEPT !.monthlyExpenses = e,
                              !.assetAllocation = AllEquity] :
             e \in {0, 1500, 4000, 8000} }

AgeInputs ==
  { [BaseInputs EXCEPT !.currentAge = c, !.retirementAge = r,
                       !.lifeExpectancy = l] :
      c \in {174, 176, 300}, r \in {194, 320}, l \in {212, 350} }

OptionInputs ==
  { [expenseGrowthRate |-> 0] @@ BaseInputs,
    [expenseGrowthRate |-> 1000] @@ BaseInputs,
    [investmentGrowthRate |-> 0] @@ BaseInputs,
    [investmentGrowthRate |-> 300] @@ BaseInputs,
    [futureExpenses |-> <<[year |-> 1, amount |-> 20000]>>] @@ BaseInputs,
    [futureExpenses |-> <<[year |-> 3, amount |-> 30000],
                          [year |-> 3, amount |-> 5000]>>] @@ BaseInputs,
    [BaseInputs EXCEPT !.currentSavings = 52425, !.monthlyInvestment = 0,
                       !.monthlyExpenses = 1506],
    [BaseInputs EXCEPT !.currentAge = 316],
    [BaseInputs EXCEPT !.currentSavings = -100],
    [BaseInputs EXCEPT !.monthlyInvestment = -100],
    [BaseInputs EXCEPT !.monthlyExpenses = -100],
    [BaseInputs EXCEPT !.assetAllocation =
        ("equity-nifty50" :> 7000 @@ "debt-govt-10y" :> 2000)],
    [BaseInputs EXCEPT !.assetAllocation =
        ("equity-nifty50" :> 12000 @@ "debt-govt-10y" :> -2000)],
    [BaseInputs EXCEPT !.assetAllocation =
        ("equity-nifty50" :> 7000 @@ "crypto" :> 3000)],
    [BaseInputs EXCEPT !.assetAllocation =
        ("equity-nifty50" :> 10000 @@ "crypto" :> 0)] }

ProjectionInputsSet == CashflowInputs \cup AgeInputs \cup OptionInputs

SeedSet == {0, 12345}

ConfigSet ==
  { [numSimulations |-> n, timeStep |-> "annual"] : n \in 1..MaxSims }
    \cup { [numSimulations |-> n, seed |-> sd, timeStep |-> "annual"] :
             n \in 1..MaxSims, sd \in SeedSet }

InitSim ==
  /\ now = 2025
  /\ simIn \in [inputs : ProjectionInputsSet, config : ConfigSet,
                assumptions : {INDIA_2024_Q4}]
  /\ projOut = None
  /\ runs = <<>>
  /\ rebalIn = None /\ rebalOut = None
  /\ goalIn = None /\ goalOut = None
  /\ lookupIn = None /\ lookupOut = None
  /\ tvmIn = None /\ tvmOut = None
  /\ rng = None /\ rngLog = <<>>
  /\ planIn = None /\ planOut = None

ProjectDeterministic ==
  /\ simIn # None
  /\ projOut = None
  /\ projOut' = projectDeterministic(simIn.inputs, simIn.assumptions)
  /\ UNCHANGED <<now, rebalIn, rebalOut, goalIn, goalOut, simIn, runs, lookupIn, lookupOut,
                 tvmIn, tvmOut, rng, rngLog, planIn, planOut>>

RunMonteCarlo ==
  /\ simIn # None
  /\ Len(runs) < MaxRuns
  /\ runs' = Append(runs, runMonteCarlo(simIn.inputs, simIn.assumptions,
                                        simIn.config))
  /\ UNCHANGED <<now, rebalIn, rebalOut, goalIn, goalOut, simIn, projOut, lookupIn, lookupOut,
                 tvmIn, tvmOut, rng, rngLog, planIn, planOut>>

NextSim == ProjectDeterministic \/ RunMonteCarlo \/ Tick

SpecSim == InitSim /\ [][NextSim]_vars

----------------------------------------------------------------------------
(* Properties of the simulator and the projector                           *)

\* the invocations of runMonteCarlo that returned a result
Completed == { i \in 1..Len(runs) : "error" \notin DOMAIN runs[i].result }

TerminalOf(timeline) == timeline[Len(timeline)].portfolioValue

C5_PerPathSeed ==
  \A r \in Completed :
    \A i \in 1..Len(runs[r].simulations) :
      runs[r].simulations[i].seed =
        (IF "seed" \in DOMAIN simIn.config THEN simIn.config.seed ELSE 42)
          + (i - 1)

\* C6: successProbability is the number of paths with a positive terminal
\* value over N, shortfallRisk.probability is its complement, and the paths
\* with depletedAt set are exactly the paths not counted as successes.
C6_SuccessComplement ==
  \A r \in Completed :
    LET sims == runs[r].simulations
        res  == runs[r].result
        n    == Len(sims)
        positive == { i \in 1..n : sims[i].terminalValue > 0 }
        depleted == { i \in 1..n : "depletedAt" \in DOMAIN sims[i] }
    IN  /\ res.successProbability = [num |-> Cardinality(positive), den |-> n]
        /\ res.shortfallRisk.probability.den = n
        /\ res.successProbability.num + res.shortfallRisk.probability.num = n
        /\ depleted = (1..n) \ positive

C6_Witness ==
  \E r \in Completed :
    /\ runs[r].result.successProbability.num > 0
    /\ runs[r].result.shortfallRisk.probability.num > 0
    /\ \E i \in 1..Len(runs[r].simulations) :
         /\ "depletedAt" \in DOMAIN runs[r].simulations[i]
         /\ Len(runs[r].simulations[i].timeline)
              < sanitizeInputs(simIn.inputs).lifeExpectancy
                  - sanitizeInputs(simIn.inputs).currentAge

\* path k stands at index idx of the paths in ascending order of terminal value
AtSortedIndex(sims, k, idx) ==
  /\ Cardinality({ i \in 1..Len(sims) :
                     sims[i].terminalValue < sims[k].terminalValue }) <= idx
  /\ Cardinality({ i \in 1..Len(sims) :
                     sims[i].terminalValue <= sims[k].terminalValue }) > idx

IsPathAt(sims, timeline, p) ==
  \E k \in 1..Len(sims) :
    /\ timeline = sims[k].timeline
    /\ AtSortedIndex(sims, k, (Len(sims) * p) \div 100)

\* the terminalValue of the path with this timeline, the key of the sort
TerminalValue(timeline) == OrZero(TerminalOf(timeline))

\* C7: each percentile path is the whole timeline of the simulated path at
\* index floor(N * p) in ascending order of terminal value, and the terminal
\* values satisfy worstCase <= p10 <= p25 <= p50 <= p75 <= p90.
C7_PercentilePaths ==
  \A r \in Completed :
    LET sims == runs[r].simulations
        pct  == runs[r].result.percentiles
    IN  /\ IsPathAt(sims, pct.p10, 10)
        /\ IsPathAt(sims, pct.p25, 25)
        /\ IsPathAt(sims, pct.p50, 50)
        /\ IsPathAt(sims, pct.p75, 75)
        /\ IsPathAt(sims, pct.p90, 90)
        /\ runs[r].result.shortfallRisk.worstCase <= TerminalValue(pct.p10)
        /\ TerminalValue(pct.p10) <= TerminalValue(pct.p25)
        /\ TerminalValue(pct.p25) <= TerminalValue(pct.p50)
        /\ TerminalValue(pct.p50) <= TerminalValue(pct.p75)
        /\ TerminalValue(pct.p75) <= TerminalValue(pct.p90)

C7_Witness ==
  \E r \in Completed :
    LET sims == runs[r].simulations
        pct  == runs[r].result.percentiles
    IN  /\ Len(sims) >= 4
        /\ TerminalOf(pct.p10) < TerminalOf(pct.p25)
        /\ TerminalOf(pct.p25) < TerminalOf(pct.p50)
        /\ TerminalOf(pct.p50) < TerminalOf(pct.p75)
        /\ \E i \in 1..(Len(sims) - 1) :
             sims[i].terminalValue > sims[i + 1].terminalValue

\* C8: medianOutcome equals terminalValueDistribution.median for every number
\* of simulations, odd or even.
C8_MedianOutcome ==
  \A r \in Completed :
    LET res == runs[r].result
    IN  res.medianOutcome * res.terminalValueDistribution.median.den
          = res.terminalValueDistribution.median.num

\* x >= 0, which is false of NaN
NonNegative(timeline) ==
  \A i \in 1..Len(timeline) :
    timeline[i].portfolioValue # NaN /\ timeline[i].portfolioValue >= 0

\* record i of the timeline holds 0 where the yearly update went below 0
ClampedAt(timeline, start, i) ==
  /\ timeline[i].portfolioValue = 0
  /\ (IF i = 1 THEN start ELSE timeline[i - 1].portfolioValue)
       + timeline[i].investmentReturn + timeline[i].netCashflow < 0

\* C9: every portfolioValue recorded by projectDeterministic and by every
\* Monte Carlo path (the percentile paths included) is at least 0.
C9_NonNegative ==
  /\ (projOut # None /\ "error" \notin DOMAIN projOut)
       => NonNegative(projOut.timeline)
  /\ \A r \in Completed :
       /\ \A i \in 1..Len(runs[r].simulations) :
            NonNegative(runs[r].simulations[i].timeline)
       /\ NonNegative(runs[r].result.percentiles.p10)
       /\ NonNegative(runs[r].result.percentiles.p25)
       /\ NonNegative(runs[r].result.percentiles.p50)
       /\ NonNegative(runs[r].result.percentiles.p75)
       /\ NonNegative(runs[r].result.percentiles.p90)

C9_Witness ==
  LET start == sanitizeInputs(simIn.inputs).currentSavings
  IN  /\ projOut # None /\ "error" \notin DOMAIN projOut
      /\ \E i \in 1..Len(projOut.timeline) :
           ClampedAt(projOut.timeline, start, i)
      /\ \E r \in Completed : \E k \in 1..Len(runs[r].simulations) :
           LET timeline == runs[r].simulations[k].timeline
           IN  \E i \in 1..Len(timeline) :
                 /\ ClampedAt(timeline, start, i)
                 /\ timeline[i].investmentReturn < 0

\* the shape of a timeline for sanitized inputs
TimelineShape(timeline, inputs) ==
  LET k    == Len(timeline)
      full == inputs.lifeExpectancy - inputs.currentAge
      RetiredZero(i) == /\ timeline[i].portfolioValue = 0
                        /\ timeline[i].age >= inputs.retirementAge
  IN  /\ k >= 1
      /\ k <= full
      /\ \A i \in 1..k : /\ timeline[i].year = i - 1
                         /\ timeline[i].age = inputs.currentAge + (i - 1)
      /\ \A i \in 1..(k - 1) : ~RetiredZero(i)
      /\ k < full => RetiredZero(k)

RecordPhases(record, inputs, investmentGrowth) ==
  LET retired == record.age >= inputs.retirementAge
  IN  /\ retired => /\ record.contributions = 0
                    /\ record.withdrawals = record.expenses
      /\ ~retired => /\ record.withdrawals = 0
                     /\ record.contributions =
                          (inputs.monthlyInvestment * 12
                             * Pow(investmentGrowth, record.year)) \div PowScale
      /\ ~(record.contributions > 0 /\ record.withdrawals > 0)
      /\ record.netCashflow = record.contributions - record.withdrawals

TimelinePhases(timeline) ==
  LET inputs == sanitizeInputs(simIn.inputs)
      growth == ProjInvestmentGrowth(inputs, InflationRate(INDIA_2024_Q4))
  IN  \A i \in 1..Len(timeline) : RecordPhases(timeline[i], inputs, growth)

\* C11: in every timeline record, contributions are 0 from retirement on and
\* monthlyInvestment * 12 * (1 + investmentGrowth)^year before it, withdrawals
\* are the year's expenses from retirement on and 0 before it, never both are
\* positive, and netCashflow = contributions - withdrawals.
C11_Phases ==
  /\ (projOut # None /\ "error" \notin DOMAIN projOut)
       => TimelinePhases(projOut.timeline)
  /\ \A r \in Completed : \A i \in 1..Len(runs[r].simulations) :
       TimelinePhases(runs[r].simulations[i].timeline)

HasBothPhases(timeline) ==
  /\ \E i \in 1..Len(timeline) : timeline[i].contributions > 0
  /\ \E i \in 1..Len(timeline) : timeline[i].withdrawals > 0

C11_Witness ==
  /\ projOut # None /\ "error" \notin DOMAIN projOut
  /\ HasBothPhases(projOut.timeline)
  /\ "investmentGrowthRate" \in DOMAIN simIn.inputs
  /\ \E r \in Completed : HasBothPhases(runs[r].simulations[1].timeline)

\* the classification of a projection by the corpus at retirement
Classified(timeline, inputs, needed, projected) ==
  IF \E i \in 1..Len(timeline) :
       timeline[i].portfolioValue = 0 /\ timeline[i].age >= inputs.retirementAge
  THEN "depletion"
  ELSE IF projected > needed THEN "surplus"
  ELSE IF 10 * (needed - projected) <= needed THEN "on-track"
  ELSE "shortfall"

\* C12: successMetric is depletion if the portfolio hit zero at or after
\* retirement, else surplus if the projected corpus exceeds the corpus needed,
\* else on-track if the relative shortfall is at most 10% (10% included),
\* else shortfall.
C12_SuccessMetric ==
  (projOut # None /\ "error" \notin DOMAIN projOut) =>
    projOut.summary.successMetric =
      Classified(projOut.timeline, sanitizeInputs(simIn.inputs),
                 projOut.summary.retirementCorpusNeeded,
                 projOut.summary.projectedCorpusAtRetirement)

\* the monetary fields of the raw inputs that are negative
NegativeFields(inputs) ==
  { f \in {"currentSavings", "monthlyInvestment", "monthlyExpenses"} :
      inputs[f] < 0 }

RejectedNaming(result, fields) ==
  /\ "error" \in DOMAIN result
  /\ result.error = "ValidationError"
  /\ result.field \in fields

\* C13: for raw inputs with a negative currentSavings, monthlyInvestment or
\* monthlyExpenses, projectDeterministic and runMonteCarlo fail with a
\* ValidationError naming such a field and return no result.
C13_NegativeRejected ==
  NegativeFields(simIn.inputs) # {} =>
    /\ projOut # None => RejectedNaming(projOut, NegativeFields(simIn.inputs))
    /\ \A r \in 1..Len(runs) :
         RejectedNaming(runs[r].result, NegativeFields(simIn.inputs))

\* the constraints of the validator that the raw inputs violate, by the field
\* they concern; ages are rounded to whole years first
ViolatedFields(inputs) ==
  LET currentAge     == (inputs.currentAge + 5) \div 10
      retirementAge  == (inputs.retirementAge + 5) \div 10
      lifeExpectancy == (inputs.lifeExpectancy + 5) \div 10
      weights        == inputs.assetAllocation
      total          == SumValues(weights, DOMAIN weights)
  IN  (IF currentAge < 18 \/ currentAge > 100 THEN {"currentAge"} ELSE {})
        \cup (IF retirementAge > currentAge THEN {} ELSE {"retirementAge"})
        \cup (IF lifeExpectancy > retirementAge THEN {} ELSE {"lifeExpectancy"})
        \cup (IF /\ total - 10000 <= 1 /\ 10000 - total <= 1
                 /\ \A a \in DOMAIN weights :
                      weights[a] >= 0 /\ weights[a] <= 10000
              THEN {} ELSE {"assetAllocation"})

ValidationErrorFree(result) ==
  "error" \in DOMAIN result => result.error # "ValidationError"

\* C14: a result is produced only for inputs that satisfy every constraint of
\* the validator after the ages are rounded; an input violating one is
\* rejected with a ValidationError naming a violated field, and no yearly
\* record is produced.
C14_Acceptance ==
  LET violated == ViolatedFields(simIn.inputs)
  IN  /\ projOut # None =>
           IF violated = {} THEN ValidationErrorFree(projOut)
           ELSE RejectedNaming(projOut, violated)
      /\ \A r \in 1..Len(runs) :
           IF violated = {} THEN ValidationErrorFree(runs[r].result)
           ELSE /\ RejectedNaming(runs[r].result, violated)
                /\ runs[r].simulations = <<>>

C14_Witness ==
  /\ simIn.inputs.currentAge % 10 # 0
  /\ projOut # None
  /\ RejectedNaming(projOut, {"retirementAge"})
  /\ Len(runs) >= 1
  /\ RejectedNaming(runs[1].result, {"retirementAge"})

\* the asset ids of the allocation that the bundle does not hold
UnknownAssets(inputs) ==
  { a \in DOMAIN inputs.assetAllocation :
      a \notin DOMAIN INDIA_2024_Q4.assetClasses }

ReportsUnknownAsset(result) ==
  "error" \in DOMAIN result /\ result.error = "Unknown asset"

\* C15: for inputs the validator accepts whose allocation names an asset id
\* absent from the bundle, whatever its weight, projectDeterministic and
\* runMonteCarlo both fail with an error reporting the unknown asset.
C15_UnknownAsset ==
  (UnknownAssets(simIn.inputs) # {} /\ ViolatedFields(simIn.inputs) = {}) =>
    /\ projOut # None => ReportsUnknownAsset(projOut)
    /\ \A r \in 1..Len(runs) : ReportsUnknownAsset(runs[r].result)

----------------------------------------------------------------------------
(* Assumptions registry: getAssumptions, listAvailableAssumptions          *)
(*                                                                         *)
(* A string is modelled by its segments between dashes, so that            *)
(* `${region}-${version}` is the concatenation of the two segment lists    *)
(* and key.split('-') is the identity.                                     *)

\* the segments of the region and version strings held by the bundles
SegmentsOf == ("IN" :> <<"IN">>) @@ ("2024-Q4" :> <<"2024", "Q4">>)

\* ASSUMPTIONS_REGISTRY, by the segments of its keys
ASSUMPTIONS_REGISTRY == (<<"IN", "2024", "Q4">> :> INDIA_2024_Q4)

\* const key = `${region}-${version}`
RegistryKey(region, version) == region \o version

\* getAssumptions(region, version = '2024-Q4')
getAssumptions(args) ==
  LET region  == args.region
      version == IF "version" \in DOMAIN args THEN args.version
                 ELSE <<"2024", "Q4">>
      key     == RegistryKey(region, version)
  IN  IF key \notin DOMAIN ASSUMPTIONS_REGISTRY
      THEN [error |-> "AssumptionNotFoundError",
            region |-> region, version |-> version]
      ELSE ASSUMPTIONS_REGISTRY[key]

\* listAvailableAssumptions(): const [region, ...versionParts] = key.split('-')
listAvailableAssumptions ==
  { [ region  |-> <<Head(key)>>,
      version |-> IF Tail(key) = <<>> THEN <<"">> ELSE Tail(key) ] :
    key \in DOMAIN ASSUMPTIONS_REGISTRY }

MaxSegments == 2

SegmentSet == {"IN", "US", "2024", "Q4"}

StringSet == UNION { [1..n -> SegmentSet] : n \in 1..MaxSegments }

LookupArgs ==
  [region : StringSet, version : StringSet \cup {<<"2024", "Q4">>}]
    \cup [region : StringSet]

InitRegistry ==
  /\ now = 2025
  /\ lookupIn \in LookupArgs
  /\ lookupOut = None
  /\ rebalIn = None /\ rebalOut = None
  /\ goalIn = None /\ goalOut = None
  /\ simIn = None /\ projOut = None /\ runs = <<>>
  /\ tvmIn = None /\ tvmOut = None
  /\ rng = None /\ rngLog = <<>>
  /\ planIn = None /\ planOut = None

GetAssumptions ==
  /\ lookupIn # None
  /\ lookupOut = None
  /\ lookupOut' = getAssumptions(lookupIn)
  /\ UNCHANGED <<now, rebalIn, rebalOut, goalIn, goalOut, simIn, projOut, runs,
                 lookupIn, tvmIn, tvmOut, rng, rngLog, planIn, planOut>>

NextRegistry == GetAssumptions

SpecRegistry == InitRegistry /\ [][NextRegistry]_vars

\* C16: getAssumptions(region, version) returns a bundle whose region and
\* version are the requested pair when the pair is one listed by
\* listAvailableAssumptions, and fails with AssumptionNotFoundError for every
\* other pair of strings.
C16_RegistryLookup ==
  (lookupOut # None /\ "version" \in DOMAIN lookupIn) =>
    IF [region |-> lookupIn.region, version |-> lookupIn.version]
         \in listAvailableAssumptions
    THEN /\ "error" \notin DOMAIN lookupOut
         /\ SegmentsOf[lookupOut.region] = lookupIn.region
         /\ SegmentsOf[lookupOut.version] = lookupIn.version
    ELSE /\ "error" \in DOMAIN lookupOut
         /\ lookupOut.error = "AssumptionNotFoundError"

----------------------------------------------------------------------------
(* Further properties of the rebalancer                                    *)

\* max |drift| over the target assets is below the threshold, in percent
DriftsWithin(holdings, target, threshold) ==
  \A a \in DOMAIN target :
    /\ 100 * Held(holdings, a) - target[a] * TotalValue(holdings)
         < threshold * TotalValue(holdings)
    /\ target[a] * TotalValue(holdings) - 100 * Held(holdings, a)
         < threshold * TotalValue(holdings)

StatedBps(config, a) ==
  IF "tradingCostBps" \in DOMAIN config THEN config.tradingCostBps
  ELSE INDIA_2024_Q4.assetClasses[a].tradingCost

RECURSIVE StatedCost(_, _)
\* the sum over the trades of amount * bps, a numerator over 10000
StatedCost(trades, config) ==
  IF trades = <<>> THEN 0
  ELSE Head(trades).amount * StatedBps(config, Head(trades).asset)
       + StatedCost(Tail(trades), config)

\* C18: estimatedCost is the sum over the emitted trades of
\* amount * bps / 10000, bps being config.tradingCostBps whenever it is
\* supplied and the asset's bundled trading cost otherwise, and
\* impactOnReturn = 10000 * estimatedCost / totalValue.
C18_EstimatedCost ==
  (rebalOut # None /\ rebalOut.needsRebalancing) =>
    /\ rebalOut.estimatedCost = StatedCost(rebalOut.trades, rebalIn.config)
    /\ rebalOut.impactOnReturn = StatedCost(rebalOut.trades, rebalIn.config)

----------------------------------------------------------------------------
(* Further properties of the goal allocator                                *)

\* C19: budgetUtilization = 100 * totalMonthly / budget for every budget > 0
\* and 0 when the budget is 0, with or without goals; it lies in [0, 100].
\* A fraction with denominator 0 is NaN and equals no number.
C19_BudgetUtilization ==
  GoalResult =>
    LET u == goalOut.budgetUtilization
        budget == goalIn.monthlyBudget
    IN  /\ u.den # 0
        /\ IF budget > 0
           THEN IF u.den = budget
                THEN u.num = 100 * goalOut.totalMonthly
                ELSE u.num * budget = 100 * goalOut.totalMonthly * u.den
           ELSE u.num = 0
        /\ 0 <= u.num /\ u.num <= 100 * u.den

\* what a caller observes of a call: the failure, or the allocations and the
\* number of conflicts (recommendations are derived from these two)
Outcome(result) ==
  IF "error" \in DOMAIN result
  THEN result
  ELSE [allocations |-> result.allocations, conflicts |-> result.conflicts]

\* C20: allocateGoalBudget is a function of (goals, monthlyBudget,
\* assumptions) only: a call made now with the arguments of the recorded call
\* returns the same allocations and conflicts, or fails identically, whatever
\* the year of either call.
C20_Purity ==
  goalOut # None =>
    Outcome(goalOut) =
      Outcome(allocateGoalBudget(goalIn.goals, goalIn.monthlyBudget,
                                 INDIA_2024_Q4, now))

-----------------------------------------------------------------------------
(* Numeric kernel: doubles                                                 *)
(*                                                                         *)
(* A finite double is sign * m * 2^e with m a natural number of at most 53 *)
(* bits, held in limbs of 15 bits, least significant first; a canonical    *)
(* double has m odd, or m = <<>> and e = 0 for zero.  The product, the     *)
(* quotient and the sum are the exact results rounded to 53 bits, ties to  *)
(* even.  Exponents of the model's values stay far inside the range of a   *)
(* double, so overflow and subnormals do not arise.                        *)

Trim(limbs) == SubSeq(limbs, 1, TopLimb(limbs))

BitsOf(limbs) ==
  LET t == TopLimb(limbs)
  IN  IF t = 0 THEN 0 ELSE 15 * (t - 1) + BitLen(limbs[t])

RECURSIVE TimesSmall(_, _, _)
\* limbs * d + c for 0 <= d, c < LimbBase
TimesSmall(limbs, d, c) ==
  IF limbs = <<>> THEN (IF c = 0 THEN <<>> ELSE <<c>>)
  ELSE LET t == Head(limbs) * d + c
       IN  <<t % LimbBase>> \o TimesSmall(Tail(limbs), d, t \div LimbBase)

ShiftLeft(limbs, k) ==
  IF limbs = <<>> THEN <<>>
  ELSE [i \in 1..(k \div 15) |-> 0] \o TimesSmall(limbs, Pow2(k % 15), 0)

ShiftRight(limbs, k) ==
  LET unit == Pow2(k % 15)
      rest == SubSeq(limbs, k \div 15 + 1, Len(limbs)) \o <<0>>
  IN  Trim([i \in 1..(Len(rest) - 1) |->
              rest[i] \div unit + (rest[i + 1] % unit) * (LimbBase \div unit)])

BitAt(limbs, i) ==
  IF i \div 15 + 1 > Len(limbs) THEN 0
  ELSE (limbs[i \div 15 + 1] \div Pow2(i % 15)) % 2

AnyBelow(limbs, i) == \E b \in 0..(i - 1) : BitAt(limbs, b) = 1

AddLimbs(a, b) ==
  LET n == Max(Len(a), Len(b))
      x == a \o [i \in 1..(n - Len(a)) |-> 0]
      y == b \o [i \in 1..(n - Len(b)) |-> 0]
  IN  Carry([i \in 1..n |-> x[i] + y[i]], 0)

RECURSIVE Borrow(_, _, _)
\* a - b - c limb by limb, for a >= b + c and Len(a) >= Len(b)
Borrow(a, b, c) ==
  IF a = <<>> THEN <<>>
  ELSE LET t == Head(a) - (IF b = <<>> THEN 0 ELSE Head(b)) - c
       IN  <<t % LimbBase>> \o
           Borrow(Tail(a), IF b = <<>> THEN <<>> ELSE Tail(b),
                  IF t < 0 THEN 1 ELSE 0)

SubLimbs(a, b) == Trim(Borrow(a, b, 0))

\* a < b, for limbs without leading zeros
LessLimbs(a, b) ==
  \/ Len(a) < Len(b)
  \/ /\ Len(a) = Len(b)
     /\ \E i \in 1..Len(a) :
          /\ a[i] < b[i]
          /\ \A j \in (i + 1)..Len(a) : a[j] = b[j]

RECURSIVE TimesLimbs(_, _)
TimesLimbs(a, b) ==
  IF b = <<>> THEN <<>>
  ELSE AddLimbs(TimesSmall(a, Head(b), 0), <<0>> \o TimesLimbs(a, Tail(b)))

\* the nearest natural of at most 53 bits times 2^shift, ties to even
RoundNearestEven(limbs) ==
  The({ IF k <= 0 THEN [m |-> Trim(limbs), shift |-> 0]
        ELSE The({ [ m |-> IF BitAt(limbs, k - 1) = 1 /\
                              (AnyBelow(limbs, k - 1) \/ BitAt(limbs, k) = 1)
                           THEN Carry(<<q[1] + 1>> \o Tail(q), 0)
                           ELSE q,
                     shift |-> k ] :
                   q \in {ShiftRight(limbs, k)} }) :
        k \in {BitsOf(limbs) - 53} })

Zero == [sign |-> 1, m |-> <<>>, e |-> 0]

TrailingZeros(limbs) ==
  CHOOSE i \in 0..(BitsOf(limbs) - 1) :
    BitAt(limbs, i) = 1 /\ ~AnyBelow(limbs, i)

Canonical(sign, m, e) ==
  IF TopLimb(m) = 0 THEN Zero
  ELSE The({ [sign |-> sign, m |-> ShiftRight(m, tz), e |-> e + tz] :
             tz \in {TrailingZeros(m)} })

\* a * b
Times(a, b) ==
  The({ Canonical(a.sign * b.sign, r.m, a.e + b.e + r.shift) :
        r \in {RoundNearestEven(TimesLimbs(a.m, b.m))} })

\* one more quotient bit of the long division by b, for step.rem < b
DivStep(step, b) ==
  The({ IF LessLimbs(r, b)
        THEN [rem |-> r, quot |-> q]
        ELSE [rem |-> SubLimbs(r, b), quot |-> <<q[1] + 1>> \o Tail(q)] :
        r \in {TimesSmall(step.rem, 2, 0)},
        q \in {TimesSmall(step.quot, 2, 0)} })

DivStep8(step, b) ==
  DivStep(DivStep(DivStep(DivStep(
    DivStep(DivStep(DivStep(DivStep(step, b), b), b), b), b), b), b), b)

RECURSIVE DivSteps(_, _, _)
\* 8 * n more quotient bits
DivSteps(step, b, n) ==
  IF n = 0 THEN step
  ELSE The({ DivSteps(next, b, n - 1) : next \in {DivStep8(step, b)} })

\* a / b for b # 0: both mantissas brought to 53 bits, 57 quotient bits and
\* a sticky bit for the remainder, then rounded
Divide(a, b) ==
  IF a.m = <<>> THEN Zero
  ELSE The({ The({ The({ Canonical(a.sign * b.sign, r.m,
                                   (a.e - (53 - BitsOf(a.m))) -
                                   (b.e - (53 - BitsOf(b.m))) - 57 + r.shift) :
                         r \in {RoundNearestEven(
                                  TimesSmall(d.quot, 2,
                                             IF d.rem = <<>> THEN 0 ELSE 1))} }) :
                   d \in {DivSteps(IF LessLimbs(na, nb)
                                   THEN [rem |-> na, quot |-> <<0>>]
                                   ELSE [rem |-> SubLimbs(na, nb), quot |-> <<1>>],
                                   nb, 7)} }) :
             na \in {ShiftLeft(a.m, 53 - BitsOf(a.m))},
             nb \in {ShiftLeft(b.m, 53 - BitsOf(b.m))} })

One == [sign |-> 1, m |-> <<1>>, e |-> 0]

Min(a, b) == IF a < b THEN a ELSE b

\* 1 + rate, for rate > -1
OnePlus(rate) ==
  IF rate.m = <<>> THEN One
  ELSE The({ The({ Canonical(1, r.m, low + r.shift) :
                   r \in {RoundNearestEven(
                            IF rate.sign > 0
                            THEN AddLimbs(ShiftLeft(<<1>>, -low),
                                          ShiftLeft(rate.m, rate.e - low))
                            ELSE SubLimbs(ShiftLeft(<<1>>, -low),
                                          ShiftLeft(rate.m, rate.e - low)))} }) :
             low \in {Min(0, rate.e)} })

\* Math.pow(base, periods) for periods 0, 1 and 2, where it is exact: 1, the
\* base itself, and the rounded product base * base
MathPow(base, periods) ==
  IF periods = 0 THEN One
  ELSE IF periods = 1 THEN base
  ELSE Times(base, base)

IsNegative(x) == x.sign < 0 /\ x.m # <<>>

-----------------------------------------------------------------------------
(* Compound interest: futureValue, presentValue                            *)

futureValue(presentValue_, rate, periods) ==
  IF IsNegative(presentValue_)
  THEN [error |-> "Present value must be non-negative"]
  ELSE IF periods < 0
  THEN [error |-> "Periods must be non-negative"]
  ELSE [value |-> Times(presentValue_, MathPow(OnePlus(rate), periods))]

\* presentValue discounting one period whatever the number of periods
presentValueOnePeriod(futureValue_, rate, periods) ==
  IF IsNegative(futureValue_)
  THEN [error |-> "Future value must be non-negative"]
  ELSE IF periods < 0
  THEN [error |-> "Periods must be non-negative"]
  ELSE [value |-> Divide(futureValue_, OnePlus(rate))]

presentValue(futureValue_, rate, periods) ==
  IF IsNegative(futureValue_)
  THEN [error |-> "Future value must be non-negative"]
  ELSE IF periods < 0
  THEN [error |-> "Periods must be non-negative"]
  ELSE [value |-> Divide(futureValue_, MathPow(OnePlus(rate), periods))]

-----------------------------------------------------------------------------
(* Inputs of the compound-interest round trip                              *)

\* the double of an integer below 2^31 in absolute value
FromInteger(n) ==
  Canonical(IF n < 0 THEN -1 ELSE 1, Carry(<<Abs(n)>>, 0), 0)

\* 0.12, 0.1, 0.08 and 100000.1 as the doubles nearest to them
Double_0_12 == [sign |-> 1, m |-> <<9175, 31457, 23592, 30>>, e |-> -53]

Double_0_1 == [sign |-> 1, m |-> <<19661, 6553, 13107, 102>>, e |-> -55]

Double_0_08 == [sign |-> 1, m |-> <<5243, 3932, 27525, 163>>, e |-> -56]

Double_100000_1 == [sign |-> 1, m |-> <<19661, 6553, 21507, 97>>, e |-> -35]

Half == [sign |-> 1, m |-> <<1>>, e |-> -1]

AmountSet ==
  { FromInteger(n) : n \in {-100, 0, 1, 7, 1000, 100000, 1000000} }
    \cup {Double_0_1, Double_100000_1}

RateSet ==
  { Zero, Double_0_12, Double_0_1, Double_0_08, Half,
    [sign |-> -1, m |-> <<1>>, e |-> -1], FromInteger(2) }

PeriodSet == {-5, 0, 1, 2}

InitCompound ==
  /\ now = 2025
  /\ tvmIn \in [amount : AmountSet, rate : RateSet, periods : PeriodSet]
  /\ tvmOut = None
  /\ rebalIn = None /\ rebalOut = None
  /\ goalIn = None /\ goalOut = None
  /\ simIn = None /\ projOut = None /\ runs = <<>>
  /\ lookupIn = None /\ lookupOut = None
  /\ rng = None /\ rngLog = <<>>
  /\ planIn = None /\ planOut = None

\* const fv = futureValue(amount, rate, periods)
FutureValue ==
  /\ tvmIn # None
  /\ tvmOut = None
  /\ tvmOut' = [fv |-> futureValue(tvmIn.amount, tvmIn.rate, tvmIn.periods)]
  /\ UNCHANGED <<now, rebalIn, rebalOut, goalIn, goalOut, simIn, projOut, runs,
                 lookupIn, lookupOut, tvmIn, rng, rngLog, planIn, planOut>>

\* const pv = presentValue(fv, rate, periods)
PresentValue ==
  /\ tvmOut # None
  /\ "pv" \notin DOMAIN tvmOut
  /\ "value" \in DOMAIN tvmOut.fv
  /\ tvmOut' = [fv |-> tvmOut.fv,
                pv |-> presentValue(tvmOut.fv.value, tvmIn.rate, tvmIn.periods)]
  /\ UNCHANGED <<now, rebalIn, rebalOut, goalIn, goalOut, simIn, projOut, runs,
                 lookupIn, lookupOut, tvmIn, rng, rngLog, planIn, planOut>>

NextCompound == FutureValue \/ PresentValue

SpecCompound == InitCompound /\ [][NextCompound]_vars

RoundTripDone == tvmOut # None /\ "pv" \in DOMAIN tvmOut

Rejected ==
  (tvmOut # None /\ (IsNegative(tvmIn.amount) \/ tvmIn.periods < 0)) =>
    "error" \in DOMAIN tvmOut.fv

\* |a - b| <= b * 2^-52 for doubles a, b >= 0
Close(a, b) ==
  The({ The({ ~LessLimbs(y, ShiftLeft(IF LessLimbs(x, y) THEN SubLimbs(y, x)
                                      ELSE SubLimbs(x, y), 52)) :
              x \in {ShiftLeft(a.m, a.e - low)},
              y \in {ShiftLeft(b.m, b.e - low)} }) :
        low \in {Min(a.e, b.e)} })

-----------------------------------------------------------------------------
(* Trade emission of the rebalancer                                        *)

\* the configured minimum trade amount whenever one is supplied, else 10000
StatedMinimum(config) ==
  IF "minimumTradeAmount" \in DOMAIN config
  THEN config.minimumTradeAmount
  ELSE 10000

TradesOf(result, a) ==
  SelectSeq(result.trades, LAMBDA t : t.asset = a)

\* C22: when rebalancing is needed, a trade is emitted for target asset a iff
\* |drift_a| > 1 percentage point and |target_value_a - holdings[a]| >= the
\* minimum trade amount (the configured value whenever supplied, 10000 only
\* when absent); it is a BUY when the target value is higher and a SELL when
\* lower, its amount is the absolute difference and target_value_a =
\* target%_a / 100 * total_value.
C22_TradeEmission ==
  (rebalOut # None /\ rebalOut.needsRebalancing) =>
    LET h == rebalIn.holdings
        t == rebalIn.target
        total == SumValues(h, DOMAIN h)
    IN  \A a \in DOMAIN t :
          LET current == IF a \in DOMAIN h THEN h[a] ELSE 0
              due == /\ Abs(100 * current - t[a] * total) > total
                     /\ Abs(t[a] * total - 100 * current) >=
                          100 * StatedMinimum(rebalIn.config)
              emitted == TradesOf(rebalOut, a)
          IN  /\ Len(emitted) = (IF due THEN 1 ELSE 0)
              /\ \A i \in 1..Len(emitted) :
                   /\ 100 * emitted[i].targetValue = t[a] * total
                   /\ emitted[i].action =
                        (IF t[a] * total > 100 * current THEN "BUY" ELSE "SELL")
                   /\ 100 * emitted[i].amount = Abs(t[a] * total - 100 * current)

-----------------------------------------------------------------------------
(* Feasibility tags of the goal allocator                                  *)

\* C23: a goal is on-track iff it was granted its full requiredSIP (a
\* requiredSIP of 0 included, even with no budget left), tight iff
\* 0 < monthlySIP < requiredSIP with monthlySIP / requiredSIP > 0.70,
\* underfunded iff 0 < monthlySIP < requiredSIP with a ratio <= 0.70, and
\* impossible iff monthlySIP = 0 < requiredSIP; one conflict message is
\* emitted for each goal that is not on-track.
C23_FeasibilityTags ==
  GoalResult =>
    /\ \A i \in 1..Len(goalOut.allocations) :
         LET g == goalOut.allocations[i]
             partial == 0 < g.monthlySIP /\ g.monthlySIP < g.requiredSIP
         IN  /\ g.feasibility = "on-track" <=> g.monthlySIP = g.requiredSIP
             /\ g.feasibility = "tight" <=>
                  (partial /\ 10 * g.monthlySIP > 7 * g.requiredSIP)
             /\ g.feasibility = "underfunded" <=>
                  (partial /\ 10 * g.monthlySIP <= 7 * g.requiredSIP)
             /\ g.feasibility = "impossible" <=>
                  (g.monthlySIP = 0 /\ 0 < g.requiredSIP)
    /\ goalOut.conflicts =
         Cardinality({ i \in 1..Len(goalOut.allocations) :
                         goalOut.allocations[i].feasibility # "on-track" })

\* a result with all four tags in play: a goal needing nothing is on-track
\* after the budget ran out on a tight or underfunded goal
C23_Witness ==
  /\ GoalResult
  /\ goalOut.unallocated = 0
  /\ \E i, j, k \in 1..Len(goalOut.allocations) :
       /\ i < j
       /\ goalOut.allocations[i].feasibility \in {"tight", "underfunded"}
       /\ goalOut.allocations[j].feasibility = "on-track"
       /\ goalOut.allocations[j].requiredSIP = 0
       /\ goalOut.allocations[k].feasibility = "impossible"

\* a goal funded to exactly 70% of its requiredSIP is underfunded
C23_WitnessBoundary ==
  /\ GoalResult
  /\ \E i \in 1..Len(goalOut.allocations) :
       /\ goalOut.allocations[i].feasibility = "underfunded"
       /\ 10 * goalOut.allocations[i].monthlySIP =
            7 * goalOut.allocations[i].requiredSIP

-----------------------------------------------------------------------------
(* Growth-rate overrides of the projectors                                 *)

\* input.expense_growth_rate ?? inflation
StatedExpenseGrowth(inputs, assumptions) ==
  IF "expenseGrowthRate" \in DOMAIN inputs
  THEN inputs.expenseGrowthRate
  ELSE InflationRate(assumptions)

\* input.investment_growth_rate ?? inflation + 0.01
StatedInvestmentGrowth(inputs, assumptions) ==
  IF "investmentGrowthRate" \in DOMAIN inputs
  THEN inputs.investmentGrowthRate
  ELSE InflationRate(assumptions) + PowScale \div 100

\* every record of the timeline has the stated base expenses and contribution
StatedGrowth(timeline, inputs, assumptions) ==
  \A i \in 1..Len(timeline) :
    LET record == timeline[i]
        year   == record.year
        base   == (inputs.monthlyExpenses * 12 *
                     Pow(StatedExpenseGrowth(inputs, assumptions), year))
                    \div PowScale
        oneOff == FutureExpense(FutureExpenses(inputs), year,
                                InflationRate(assumptions))
        paid   == (inputs.monthlyInvestment * 12 *
                     Pow(StatedInvestmentGrowth(inputs, assumptions), year))
                    \div PowScale
    IN  /\ record.expenses = base + oneOff
        /\ record.age < inputs.retirementAge => record.contributions = paid

\* C24: whenever expenseGrowthRate is present, whatever its value (0
\* included), the base expenses of year t are monthlyExpenses * 12 *
\* (1 + expenseGrowthRate)^t, and whenever investmentGrowthRate is present the
\* contribution of year t uses that rate; inflation and inflation + 0.01 apply
\* only when the field is absent, in projectDeterministic and in every Monte
\* Carlo path.
C24_GrowthOverrides ==
  LET inputs == sanitizeInputs(simIn.inputs)
  IN  /\ (projOut # None /\ "error" \notin DOMAIN projOut) =>
           StatedGrowth(projOut.timeline, inputs, INDIA_2024_Q4)
      /\ \A r \in Completed :
           \A s \in 1..Len(runs[r].simulations) :
             StatedGrowth(runs[r].simulations[s].timeline, inputs, INDIA_2024_Q4)

-----------------------------------------------------------------------------
(* Aggregation of paths handed over in completion order                    *)

\* the simulations in the order in which workers completed them
InCompletionOrder(simulations, order) ==
  [i \in 1..Len(simulations) |-> simulations[order[i]]]

\* the parts of a result that are to be independent of the order
Aggregated(result) ==
  [ percentiles        |-> result.percentiles,
    medianOutcome      |-> result.medianOutcome,
    worstCase          |-> result.shortfallRisk.worstCase,
    successProbability |-> result.successProbability,
    mean               |-> result.terminalValueDistribution.mean,
    median             |-> result.terminalValueDistribution.median ]

-----------------------------------------------------------------------------
(* A Monte Carlo path against the deterministic projection                 *)

\* the bundle with every volatility 0: each sampled return is the mean
ZeroVolatility ==
  [ INDIA_2024_Q4 EXCEPT
      !.assetClasses = [a \in DOMAIN @ |-> [@[a] EXCEPT !.volatility = 0]] ]

SteadyConfigSet ==
  { [numSimulations |-> n, seed |-> sd, timeStep |-> "annual"] :
      n \in 1..2, sd \in SeedSet }

InitSteady ==
  /\ now = 2025
  /\ simIn \in [inputs : ProjectionInputsSet, config : SteadyConfigSet,
                assumptions : {ZeroVolatility}]
  /\ projOut = None
  /\ runs = <<>>
  /\ rebalIn = None /\ rebalOut = None
  /\ goalIn = None /\ goalOut = None
  /\ lookupIn = None /\ lookupOut = None
  /\ tvmIn = None /\ tvmOut = None
  /\ rng = None /\ rngLog = <<>>
  /\ planIn = None /\ planOut = None

SpecSteady == InitSteady /\ [][NextSim]_vars

\* the fields of a timeline that the two projectors are to agree on
Steps(timeline) ==
  [ i \in 1..Len(timeline) |->
      [ year           |-> timeline[i].year,
        age            |-> timeline[i].age,
        expenses       |-> timeline[i].expenses,
        contributions  |-> timeline[i].contributions,
        withdrawals    |-> timeline[i].withdrawals,
        netCashflow    |-> timeline[i].netCashflow,
        portfolioValue |-> timeline[i].portfolioValue ] ]

SampledAtMean ==
  \A a \in DOMAIN simIn.assumptions.assetClasses :
    simIn.assumptions.assetClasses[a].volatility = 0

\* C26: when every sampled portfolio return equals the allocation-weighted
\* expected return, each Monte Carlo path has the timeline of the
\* deterministic projection, record for record, and stops at the same year.
C26_PathRefinesProjection ==
  (SampledAtMean /\ projOut # None /\ "error" \notin DOMAIN projOut) =>
    \A r \in Completed :
      \A s \in 1..Len(runs[r].simulations) :
        Steps(runs[r].simulations[s].timeline) = Steps(projOut.timeline)

\* both projectors ran, the portfolio grew by returns and depleted in
\* retirement before the end of the horizon
C26_Witness ==
  /\ SampledAtMean
  /\ projOut # None /\ "error" \notin DOMAIN projOut
  /\ Completed # {}
  /\ Len(projOut.timeline) >= 3
  /\ Len(projOut.timeline) <
       sanitizeInputs(simIn.inputs).lifeExpectancy
         - sanitizeInputs(simIn.inputs).currentAge
  /\ projOut.timeline[1].investmentReturn > 0

-----------------------------------------------------------------------------
(* SeededRandom as an object: new SeededRandom(seed), next()               *)

MaxCalls == 8

\* seeds around 2^53 / 1103515245 = 8162278, where the product stops being
\* exact, the seeds of the tests and of runMonteCarlo, and the largest state
RngSeedSet ==
  { 0, 1, 42, 43, 12345, 54321, 8162277, 8162278, 8162279, 8162280,
    230538014, 1073741824, 2088216195, 2147483646, 2147483647 }

InitRandom ==
  /\ now = 2025
  /\ rng \in [seed : RngSeedSet]
  /\ rngLog = <<>>
  /\ rebalIn = None /\ rebalOut = None
  /\ goalIn = None /\ goalOut = None
  /\ simIn = None /\ projOut = None /\ runs = <<>>
  /\ lookupIn = None /\ lookupOut = None
  /\ tvmIn = None /\ tvmOut = None
  /\ planIn = None /\ planOut = None

\* next(): this.seed = (...) & 0x7fffffff; return this.seed / 0x7fffffff
RngNext ==
  /\ rng # None
  /\ Len(rngLog) < MaxCalls
  /\ rng' = [seed |-> LcgNext(rng.seed)]
  /\ rngLog' = Append(rngLog,
                      [ before |-> rng.seed,
                        u |-> [num |-> rng'.seed, den |-> 2147483647] ])
  /\ UNCHANGED <<now, rebalIn, rebalOut, goalIn, goalOut, simIn, projOut, runs,
                 lookupIn, lookupOut, tvmIn, tvmOut, planIn, planOut>>

NextRandom == RngNext

SpecRandom == InitRandom /\ [][NextRandom]_vars

\* (state * 1103515245 + 12345) mod 2^31 on the integers
StatedNext(state) ==
  Low31(Carry(<<TimesMultiplier(state)[1] + 12345>>
              \o Tail(TimesMultiplier(state)), 0))

InUnitInterval(u) == 0 <= u.num /\ u.num < u.den

\* C27: every call of next() returns u with 0 <= u < 1, the state being
\* updated by state <- (state * 1103515245 + 12345) mod 2^31 and
\* u = state / (2^31 - 1).
C27_RngRange ==
  \A i \in 1..Len(rngLog) :
    /\ InUnitInterval(rngLog[i].u)
    /\ rngLog[i].u.den = 2147483647
    /\ rngLog[i].u.num = StatedNext(rngLog[i].before)

-----------------------------------------------------------------------------
(* Intention handler: handleRetirementOptimization                         *)
(* Amounts are in thousands of rupees.  A field of profile or currentPlan  *)
(* that is absent is held as 0: x || d treats both alike.                  *)

\* x || d
OrDefault(x, d) == IF x # 0 THEN x ELSE d

\* if (gap > 0) ... 'Recommendation: Increase monthly SIP by ...'
\* else ... 'On track to exceed retirement goal by ...'
Recommendation(gap) == IF gap > 0 THEN "increase-sip" ELSE "surplus"

handleRetirementOptimization(profile, currentPlan) ==
  The({ The({ IF "error" \in DOMAIN result
              THEN [error |-> result.error, field |-> result.field]
              ELSE [ inputs  |-> inputs,
                     summary |-> result.summary,
                     recommendation |->
                       Recommendation(result.summary.retirementCorpusNeeded -
                                      result.summary.projectedCorpusAtRetirement) ] :
              result \in {projectDeterministic(
                            inputs,
                            getAssumptions([region  |-> <<"IN">>,
                                            version |-> <<"2024", "Q4">>]))} }) :
        inputs \in {[ currentAge        |-> OrDefault(profile.age, 300),
                      retirementAge     |-> OrDefault(currentPlan.retirementAge, 600),
                      lifeExpectancy    |-> 850,
                      currentSavings    |-> OrDefault(currentPlan.currentSavings, 1000),
                      monthlyInvestment |-> OrDefault(currentPlan.monthlyInvestment, 25),
                      monthlyExpenses   |->
                        OrDefault(currentPlan.currentMonthlyExpenses, 50),
                      assetAllocation   |-> Balanced ]} })

ProfileSet == [age : {800, 830}]

PlanSet ==
  [ retirementAge : {0, 820, 840},
    currentSavings : {0, -1, 200, 5000},
    monthlyInvestment : {0, -1},
    currentMonthlyExpenses : {0, -1, 10, 200} ]

InitHandler ==
  /\ now = 2025
  /\ planIn \in [profile : ProfileSet, currentPlan : PlanSet]
  /\ planOut = None
  /\ rebalIn = None /\ rebalOut = None
  /\ goalIn = None /\ goalOut = None
  /\ simIn = None /\ projOut = None /\ runs = <<>>
  /\ lookupIn = None /\ lookupOut = None
  /\ tvmIn = None /\ tvmOut = None
  /\ rng = None /\ rngLog = <<>>

HandleRetirementOptimization ==
  /\ planIn # None
  /\ planOut = None
  /\ planOut' = handleRetirementOptimization(planIn.profile, planIn.currentPlan)
  /\ UNCHANGED <<now, rebalIn, rebalOut, goalIn, goalOut, simIn, projOut, runs,
                 lookupIn, lookupOut, tvmIn, tvmOut, rng, rngLog, planIn>>

NextHandler == HandleRetirementOptimization

SpecHandler == InitHandler /\ [][NextHandler]_vars

\* C28: a projection whose successMetric is depletion or shortfall never
\* yields the surplus message, and a projection whose successMetric is surplus
\* never yields the recommendation to increase the SIP.
C28_RecommendationFollowsMetric ==
  (planOut # None /\ "error" \notin DOMAIN planOut) =>
    /\ planOut.summary.successMetric \in {"depletion", "shortfall"} =>
         planOut.recommendation # "surplus"
    /\ planOut.summary.successMetric = "surplus" =>
         planOut.recommendation # "increase-sip"

-----------------------------------------------------------------------------
(* Depletion in the summary of projectDeterministic                        *)

Projected == projOut # None /\ "error" \notin DOMAIN projOut

\* C29: in every result of projectDeterministic, successMetric is depletion
\* if and only if depletionAge is set, if and only if finalPortfolioValue is
\* 0; when set, depletionAge is the age of the last timeline record and is at
\* least the retirement age.
C29_DepletionConsistency ==
  Projected =>
    LET summary  == projOut.summary
        timeline == projOut.timeline
        inputs   == sanitizeInputs(simIn.inputs)
    IN  /\ (summary.successMetric = "depletion") <=>
             ("depletionAge" \in DOMAIN summary)
        /\ ("depletionAge" \in DOMAIN summary) <=>
             (summary.finalPortfolioValue = 0)
        /\ "depletionAge" \in DOMAIN summary =>
             /\ summary.depletionAge = timeline[Len(timeline)].age
             /\ summary.depletionAge >= inputs.retirementAge

\* the portfolio ran out after the retirement age and the projection stopped
\* before the last year of the horizon
C29_Witness ==
  /\ Projected
  /\ "depletionAge" \in DOMAIN projOut.summary
  /\ projOut.summary.depletionAge > sanitizeInputs(simIn.inputs).retirementAge
  /\ projOut.summary.finalPortfolioValue = 0
  /\ Len(projOut.timeline) <
       sanitizeInputs(simIn.inputs).lifeExpectancy
         - sanitizeInputs(simIn.inputs).currentAge
  /\ projOut.timeline[1].portfolioValue > 0

\* a projection that ends with money left has no depletion age
C29_WitnessSurvives ==
  /\ Projected
  /\ projOut.summary.finalPortfolioValue > 0
  /\ "depletionAge" \notin DOMAIN projOut.summary

-----------------------------------------------------------------------------
(* The shortfallRisk block of a Monte Carlo result                         *)

Depleted(simulations) ==
  { i \in 1..Len(simulations) : "depletedAt" \in DOMAIN simulations[i] }

\* the seed from which the first call of next() returns 0:
\* 2088216195 * 1103515245 + 12345 is a multiple of 2^31 and survives rounding
ZeroDrawSeed == 2088216195

ZeroDrawConfigSet ==
  { [numSimulations |-> n, seed |-> sd, timeStep |-> "annual"] :
      n \in 1..2, sd \in {ZeroDrawSeed - 2, ZeroDrawSeed - 1, ZeroDrawSeed} }

InitZeroDraw ==
  /\ now = 2025
  /\ simIn \in [inputs : CashflowInputs, config : ZeroDrawConfigSet,
                assumptions : {INDIA_2024_Q4}]
  /\ projOut = None /\ runs = <<>>
  /\ rebalIn = None /\ rebalOut = None
  /\ goalIn = None /\ goalOut = None
  /\ lookupIn = None /\ lookupOut = None
  /\ tvmIn = None /\ tvmOut = None
  /\ rng = None /\ rngLog = <<>>
  /\ planIn = None /\ planOut = None

SpecZeroDraw == InitZeroDraw /\ [][NextSim]_vars

\* C30: every Monte Carlo result has shortfallRisk.averageShortfall = 0 and
\* shortfallRisk.worstCase >= 0, for every input, seed and N >= 1, and
\* worstCase is 0 exactly when at least one path depleted.
C30_ShortfallDegenerate ==
  \A r \in Completed :
    LET risk == runs[r].result.shortfallRisk
    IN  /\ risk.averageShortfall.num = 0
        /\ risk.worstCase >= 0
        /\ (risk.worstCase = 0) <=> (Depleted(runs[r].simulations) # {})

=============================================================================
